---------------------------- MODULE Spec2Model ----------------------------
(***************************************************************************)
(* Model of the CSI acquisition pipeline of esp-csi-tui:                   *)
(*   - the CLI line parser (src/src/csi_packet.rs),                        *)
(*   - the recording worker (src/src/parse_data.rs),                       *)
(*   - the UI side of a recording session (src/src/app/mod.rs).            *)
(* Text is modelled at the character level: a line is a sequence of        *)
(* one-character strings, and trimming, prefix tests, splitting and        *)
(* integer parsing are computed on those characters.                       *)
(***************************************************************************)
EXTENDS Integers, Sequences, FiniteSets, TLC

VARIABLES
    parser,     \* the CsiCliParser under test (SpecParser)
    hist,       \* SpecParser: one record per feed_line call, oldest first
    ret,        \* SpecParser: the value the last feed_line call returned
    app,        \* the fields of App (app/mod.rs)
    uipc,       \* where App::run is in its loop
    workers,    \* the worker thread of every session started, by session
    done_ch,    \* per session, the completion channel (tx, rx)
    plot_ch,    \* per session, the live-plot channel (plot_tx, plot_rx)
    heat_ch,    \* per session, the heatmap channel (heatmap_tx and its receiver)
    files,      \* the table files on disk, by base filename
    device      \* the environment of the sessions: what a read of the serial
                \* port can return, which step before the capture loop can
                \* fail, which file writes and whether the final flush can
                \* fail, whether the worker can panic, whether the session
                \* can reach its tenth second, and which port find_esp_port
                \* can report

parserVars == <<parser, hist, ret>>
sessionVars == <<app, uipc, workers, done_ch, plot_ch, heat_ch, files, device>>
sessionVarsButFiles == <<app, uipc, workers, done_ch, plot_ch, heat_ch, device>>
vars == <<parser, hist, ret, app, uipc, workers, done_ch, plot_ch, heat_ch, files, device>>

(***************************************************************************)
(* Option<T>: None is the empty sequence, Some(v) the one-element one.     *)
(***************************************************************************)
None == <<>>
Some(v) == <<v>>
IsSome(o) == Len(o) = 1
Unwrap(o) == o[1]

(***************************************************************************)
(* Bounds of the model.                                                    *)
(***************************************************************************)
MaxFed == 6         \* lines fed to the parser in SpecParser
MaxReads == 2       \* reads of the serial port per worker before its duration is over
MaxSessions == 2    \* recording sessions started by the UI

(***************************************************************************)
(* Text primitives (Rust str methods used by feed_line).                   *)
(***************************************************************************)
Digits == <<"0", "1", "2", "3", "4", "5", "6", "7", "8", "9">>

DigitSet == {Digits[d] : d \in 1..10}

\* char::to_digit(10) on a decimal digit
DigitValue == [c \in DigitSet |-> (CHOOSE d \in 1..10 : Digits[d] = c) - 1]

IsDigit(c) == c \in DigitSet

DigitVal(c) == DigitValue[c]

RECURSIVE FirstKept(_, _, _)
\* index of the first character at or after i that is not in drop, else Len+1
FirstKept(s, i, drop) ==
    IF i > Len(s) THEN Len(s) + 1
    ELSE IF s[i] \in drop THEN FirstKept(s, i + 1, drop)
    ELSE i

RECURSIVE LastKept(_, _, _)
\* index of the last character at or before i that is not in drop, else 0
LastKept(s, i, drop) ==
    IF i < 1 THEN 0
    ELSE IF s[i] \in drop THEN LastKept(s, i - 1, drop)
    ELSE i

\* str::trim_matches for a set of characters
TrimMatches(s, drop) ==
    LET a == FirstKept(s, 1, drop)
        b == LastKept(s, Len(s), drop)
    IN  IF a > b THEN <<>> ELSE SubSeq(s, a, b)

\* str::trim, for the whitespace a serial line can carry
Trim(s) == TrimMatches(s, {" ", "\t", "\r", "\n"})

\* str::starts_with
StartsWith(s, p) == Len(s) >= Len(p) /\ SubSeq(s, 1, Len(p)) = p

\* str::strip_prefix
StripPrefix(s, p) ==
    IF StartsWith(s, p) THEN Some(SubSeq(s, Len(p) + 1, Len(s))) ELSE None

\* the positions of the separator in s, in increasing order
SepPositions(s, sep) ==
    SelectSeq([i \in 1..Len(s) |-> i], LAMBDA i : s[i] = sep)

\* str::split on one character: the pieces between separators, empty ones kept
Split(s, sep) ==
    LET pos == SepPositions(s, sep)
        n == Len(pos)
    IN  [k \in 1..(n + 1) |->
            SubSeq(s, IF k = 1 THEN 1 ELSE pos[k - 1] + 1,
                      IF k = n + 1 THEN Len(s) ELSE pos[k] - 1)]

(***************************************************************************)
(* Integer parsing: str::parse::<i32>() and str::parse::<u64>().           *)
(* A result is Some(value) for Ok and None for Err.                        *)
(***************************************************************************)
I32Max == 2147483647
I32Min == (-2147483647) - 1

RECURSIVE AccumulateUp(_, _, _, _)
\* digits added to a non-negative accumulator, checked against max
AccumulateUp(s, i, acc, max) ==
    IF i > Len(s) THEN Some(acc)
    ELSE IF ~IsDigit(s[i]) THEN None
    ELSE IF acc > (max - DigitVal(s[i])) \div 10 THEN None
    ELSE AccumulateUp(s, i + 1, acc * 10 + DigitVal(s[i]), max)

RECURSIVE AccumulateDown(_, _, _, _)
\* digits subtracted from a non-positive accumulator, checked against min
AccumulateDown(s, i, acc, min) ==
    IF i > Len(s) THEN Some(acc)
    ELSE IF ~IsDigit(s[i]) THEN None
    ELSE IF acc < (min + DigitVal(s[i]) + 9) \div 10 THEN None
    ELSE AccumulateDown(s, i + 1, acc * 10 - DigitVal(s[i]), min)

ParseI32(s) ==
    IF Len(s) = 0 THEN None
    ELSE IF s = <<"+">> \/ s = <<"-">> THEN None
    ELSE IF s[1] = "+" THEN AccumulateUp(s, 2, 0, I32Max)
    ELSE IF s[1] = "-" THEN AccumulateDown(s, 2, 0, I32Min)
    ELSE AccumulateUp(s, 1, 0, I32Max)

\* u64 values are kept below 2^31 by the inputs of the model; a digit string
\* of more than 9 digits is outside the model's integers and is not fed.
U64ModelMax == 999999999

ParseU64(s) ==
    IF Len(s) = 0 THEN None
    ELSE IF s = <<"+">> \/ s = <<"-">> THEN None
    ELSE IF s[1] = "+" THEN AccumulateUp(s, 2, 0, U64ModelMax)
    ELSE AccumulateUp(s, 1, 0, U64ModelMax)

(***************************************************************************)
(* CsiPacket and CsiCliParser (csi_packet.rs).                             *)
(***************************************************************************)
ExpectedLen == 128

CsiPacket(ts, rssi, vals) ==
    [esp_timestamp |-> ts, rssi |-> rssi, csi_values |-> vals]

\* CsiCliParser::new() / Default
NewParser ==
    [current_timestamp |-> None, current_rssi |-> None,
     waiting_for_csi_line |-> FALSE]

S_rssi == <<"r", "s", "s", "i", ":">>
S_timestamp == <<"t", "i", "m", "e", "s", "t", "a", "m", "p", ":">>
S_marker == <<"c", "s", "i", " ", "r", "a", "w", " ", "d", "a", "t", "a">>

\* the token loop of feed_line: each token is trimmed, empty tokens are
\* skipped, tokens that parse are pushed in order, the others only warned about
CollectVals(toks) ==
    LET trimmed == [k \in 1..Len(toks) |-> Trim(toks[k])]
        nonEmpty == SelectSeq(trimmed, LAMBDA tok : Len(tok) # 0)
        parsed == [k \in 1..Len(nonEmpty) |-> ParseI32(nonEmpty[k])]
        ok == SelectSeq(parsed, IsSome)
    IN  [k \in 1..Len(ok) |-> Unwrap(ok[k])]

\* a variant of ParseCsiArray that does not strip the brackets, so that the
\* first and the last token do not parse
ParseCsiArrayKeepBrackets(line) == CollectVals(Split(line, ","))

\* the values of a bracketed line
ParseCsiArray(line) ==
    CollectVals(Split(TrimMatches(line, {"[", "]"}), ","))

\* a variant of ConsumeCsiLine that rejects a wrong-length payload before it
\* clears the armed flag
ConsumeCsiLineStayArmed(self, line) ==
    LET disarmed == [self EXCEPT !.waiting_for_csi_line = FALSE]
        vals == ParseCsiArray(line)
    IN  IF Len(vals) # ExpectedLen
        THEN [self |-> self, ret |-> None]
        ELSE IF IsSome(self.current_timestamp) /\ IsSome(self.current_rssi)
             THEN [self |-> [disarmed EXCEPT !.current_timestamp = None,
                                             !.current_rssi = None],
                   ret |-> Some(CsiPacket(Unwrap(self.current_timestamp),
                                          Unwrap(self.current_rssi), vals))]
             ELSE [self |-> disarmed, ret |-> None]

\* a variant of ConsumeCsiLine that keeps the pending timestamp and signal
\* strength when it emits a packet
ConsumeCsiLineKeepMetadata(self, line) ==
    LET disarmed == [self EXCEPT !.waiting_for_csi_line = FALSE]
        vals == ParseCsiArray(line)
    IN  IF Len(vals) # ExpectedLen
        THEN [self |-> disarmed, ret |-> None]
        ELSE IF IsSome(self.current_timestamp) /\ IsSome(self.current_rssi)
             THEN [self |-> disarmed,
                   ret |-> Some(CsiPacket(Unwrap(self.current_timestamp),
                                          Unwrap(self.current_rssi), vals))]
             ELSE [self |-> disarmed, ret |-> None]

\* a variant of ConsumeCsiLine without the length check
ConsumeCsiLineAnyLength(self, line) ==
    LET disarmed == [self EXCEPT !.waiting_for_csi_line = FALSE]
        vals == ParseCsiArray(line)
    IN  IF IsSome(self.current_timestamp) /\ IsSome(self.current_rssi)
        THEN [self |-> [disarmed EXCEPT !.current_timestamp = None,
                                        !.current_rssi = None],
              ret |-> Some(CsiPacket(Unwrap(self.current_timestamp),
                                     Unwrap(self.current_rssi), vals))]
        ELSE [self |-> disarmed, ret |-> None]

\* the armed branch of feed_line, entered with a line that starts with '['
ConsumeCsiLine(self, line) ==
    LET disarmed == [self EXCEPT !.waiting_for_csi_line = FALSE]
        vals == ParseCsiArray(line)
    IN  IF Len(vals) # ExpectedLen
        THEN [self |-> disarmed, ret |-> None]
        ELSE IF IsSome(self.current_timestamp) /\ IsSome(self.current_rssi)
             THEN [self |-> [disarmed EXCEPT !.current_timestamp = None,
                                             !.current_rssi = None],
                   ret |-> Some(CsiPacket(Unwrap(self.current_timestamp),
                                          Unwrap(self.current_rssi), vals))]
             ELSE [self |-> disarmed, ret |-> None]

\* a variant of feed_line that takes a bracketed line as a payload whether
\* or not a marker line armed the parser
\* a variant of the store below in which a metadata line also disarms the
\* parser
StoreMetadataDisarms(self, field, parsed) ==
    IF IsSome(parsed)
    THEN [self EXCEPT ![field] = parsed, !.waiting_for_csi_line = FALSE]
    ELSE self

\* a variant of the store below in which a value that does not parse clears
\* the pending value
StoreMetadataOrClear(self, field, parsed) == [self EXCEPT ![field] = parsed]

\* `if let Ok(v) = rest.trim().parse() { self.current_.. = Some(v) }`: the
\* value of a metadata line is stored when it parses
StoreMetadata(self, field, parsed) ==
    IF IsSome(parsed) THEN [self EXCEPT ![field] = parsed] ELSE self

FeedLineUnarmed(self, raw) ==
    LET line == Trim(raw)
    IN  IF Len(line) = 0 \/ StartsWith(line, <<">">>)
        THEN [self |-> self, ret |-> None]
        ELSE IF IsSome(StripPrefix(line, S_rssi))
        THEN [self |-> StoreMetadata(self, "current_rssi",
                           ParseI32(Trim(Unwrap(StripPrefix(line, S_rssi))))),
              ret |-> None]
        ELSE IF IsSome(StripPrefix(line, S_timestamp))
        THEN [self |-> StoreMetadata(self, "current_timestamp",
                           ParseU64(Trim(Unwrap(StripPrefix(line, S_timestamp))))),
              ret |-> None]
        ELSE IF StartsWith(line, S_marker)
        THEN [self |-> [self EXCEPT !.waiting_for_csi_line = TRUE], ret |-> None]
        ELSE IF StartsWith(line, <<"[">>)
        THEN ConsumeCsiLine(self, line)
        ELSE [self |-> self, ret |-> None]

\* CsiCliParser::feed_line: the parser afterwards and the value returned
FeedLine(self, raw) ==
    LET line == Trim(raw)
    IN  IF Len(line) = 0 \/ StartsWith(line, <<">">>)
        THEN [self |-> self, ret |-> None]
        ELSE IF IsSome(StripPrefix(line, S_rssi))
        THEN [self |-> StoreMetadata(self, "current_rssi",
                           ParseI32(Trim(Unwrap(StripPrefix(line, S_rssi))))),
              ret |-> None]
        ELSE IF IsSome(StripPrefix(line, S_timestamp))
        THEN [self |-> StoreMetadata(self, "current_timestamp",
                           ParseU64(Trim(Unwrap(StripPrefix(line, S_timestamp))))),
              ret |-> None]
        ELSE IF StartsWith(line, S_marker)
        THEN [self |-> [self EXCEPT !.waiting_for_csi_line = TRUE], ret |-> None]
        ELSE IF self.waiting_for_csi_line /\ StartsWith(line, <<"[">>)
        THEN ConsumeCsiLine(self, line)
        ELSE [self |-> self, ret |-> None]

(***************************************************************************)
(* The device side: how the firmware prints integers and the lines the     *)
(* parser can be fed.                                                      *)
(***************************************************************************)
RECURSIVE FmtNat(_)
FmtNat(n) ==
    IF n < 10 THEN <<Digits[n + 1]>>
    ELSE Append(FmtNat(n \div 10), Digits[(n % 10) + 1])

\* Display of an integer ("{}")
FmtInt(v) == IF v < 0 THEN <<"-">> \o FmtNat(-v) ELSE FmtNat(v)

RECURSIVE JoinInts(_, _, _, _)
\* vals[lo..hi] printed and joined by sep
JoinInts(vals, sep, lo, hi) ==
    IF lo > hi THEN <<>>
    ELSE IF lo = hi THEN FmtInt(vals[lo])
    ELSE LET mid == (lo + hi) \div 2
         IN  JoinInts(vals, sep, lo, mid) \o sep \o JoinInts(vals, sep, mid + 1, hi)

\* "[v1,v2,...]" as the firmware prints a CSI array
FmtArray(vals) == <<"[">> \o JoinInts(vals, <<",">>, 1, Len(vals)) \o <<"]">>

TimestampLine(ts) == S_timestamp \o <<" ">> \o FmtInt(ts)
RssiLine(rssi) == S_rssi \o <<" ">> \o FmtInt(rssi)
MarkerLine == S_marker
ArrayLine(vals) == FmtArray(vals)

\* payloads: I/Q values of one frame
PayloadOfLen(n) == [i \in 1..n |-> ((i * 3) % 7) - 3]
GoodPayload == PayloadOfLen(ExpectedLen)
ShortPayload == PayloadOfLen(ExpectedLen - 1)

\* a payload of strong signal: the pairs (120, -90), of amplitude 150, and
\* (28, 45), of amplitude 53, alternate
LoudPayload ==
    [i \in 1..ExpectedLen |->
        IF i % 4 = 1 THEN 120 ELSE IF i % 4 = 2 THEN -90 ELSE IF i % 4 = 3 THEN 28 ELSE 45]

Timestamps == {1000, 2500}
Rssis == {-40}

\* the lines SpecParser feeds, by index
InputLines ==
    << TimestampLine(1000), TimestampLine(2500), RssiLine(-40),
       MarkerLine, ArrayLine(GoodPayload), ArrayLine(ShortPayload) >>

(***************************************************************************)
(* The recording worker (parse_data.rs, record_csi_to_file).               *)
(***************************************************************************)
HeatmapUpdateInterval == 100
HeatmapRingCapacity == 50
NumSubcarriers == 64

\* CsiPacket::get_iq_pairs
GetIqPairs(packet) ==
    [k \in 1..(Len(packet.csi_values) \div 2) |->
        <<packet.csi_values[2 * k - 1], packet.csi_values[2 * k]>>]

\* the squared norm of every pair
SquaredNorms(pairs) ==
    [k \in 1..Len(pairs) |-> pairs[k][1] * pairs[k][1] + pairs[k][2] * pairs[k][2]]

\* CsiPacket::get_amplitudes, squared: I^2 + Q^2 of every subcarrier; an
\* amplitude is the square root of it
GetAmplitudesSq(packet) == SquaredNorms(GetIqPairs(packet))

\* the integer part of the square root
RECURSIVE ISqrtIn(_, _, _)
\* the r within lo..hi with r * r <= n < (r + 1) * (r + 1), by bisection
ISqrtIn(n, lo, hi) ==
    IF lo = hi THEN lo
    ELSE LET mid == (lo + hi + 1) \div 2
         IN  IF mid * mid <= n THEN ISqrtIn(n, mid, hi) ELSE ISqrtIn(n, lo, mid - 1)

ISqrt(n) == ISqrtIn(n, 0, IF n < 46340 THEN n ELSE 46340)

Min(a, b) == IF a <= b THEN a ELSE b

\* `(amplitude / 100.0) * 100.0` truncated, for the amplitude of a pair of
\* values within -128..127: the f32 quotient and product round, and only for
\* the amplitudes 53 and 59 does the product fall below the integer
ScaledAmplitude(a_sq) ==
    IF a_sq \in {53 * 53, 59 * 59} THEN ISqrt(a_sq) - 1 ELSE ISqrt(a_sq)

\* a variant of the row below without `.min(100.0)`: the cast saturates at
\* the largest u8
NormalizedRowUncapped(amps_sq) ==
    [k \in 1..NumSubcarriers |-> Min(ScaledAmplitude(amps_sq[k]), 255)]

\* `((amplitude / 100.0) * 100.0).min(100.0) as u8` for the first 64
\* subcarriers: the amplitude capped at 100 and truncated
NormalizedRow(amps_sq) ==
    [k \in 1..NumSubcarriers |-> Min(ScaledAmplitude(amps_sq[k]), 100)]

\* the ring row of one packet
HeatmapRow(packet) == NormalizedRow(GetAmplitudesSq(packet))

\* csv_utils::generate_csv_header, as the number of i/q column pairs it names
CsvHeader(num_csi_values) == [kind |-> "header", pairs |-> num_csi_values \div 2]

\* csv_utils::write_csv_line: the row of a packet
CsvRow(packet) == [kind |-> "row", packet |-> packet]

\* the commands apply_wifi_config writes, in order (wifi_mode.rs)
RECURSIVE Str(_)
\* the characters of s as one string
Str(s) == IF Len(s) = 0 THEN "" ELSE s[1] \o Str(Tail(s))

\* wifi_mode::escap_wifi_token: every space becomes an underscore
EscapWifiToken(s) == [i \in DOMAIN s |-> IF s[i] = " " THEN "_" ELSE s[i]]

\* a variant of the commands below that sends the password before the
\* network name
WifiCommandsPasswordFirst(mode, ssid, password) ==
    IF mode = "Sniffer"
    THEN << "set-wifi --mode=sniffer" >>
    ELSE << "set-wifi --mode station",
            "set-wifi --sta-password=" \o Str(EscapWifiToken(password)),
            "set-wifi --sta-ssid=" \o Str(EscapWifiToken(ssid)),
            "set-csi --disable-htltf --disable-stbc-htltf" >>

WifiCommands(mode, ssid, password) ==
    IF mode = "Sniffer"
    THEN << "set-wifi --mode=sniffer" >>
    ELSE << "set-wifi --mode station",
            "set-wifi --sta-ssid=" \o Str(EscapWifiToken(ssid)),
            "set-wifi --sta-password=" \o Str(EscapWifiToken(password)),
            "set-csi --disable-htltf --disable-stbc-htltf" >>

\* `format!("start --duration={}", duration_secs)`
StartCommand(duration_secs) == "start --duration=" \o Str(FmtNat(duration_secs))

\* a step of record_csi_to_file that can fail, and the bytes it writes to the
\* port when it succeeds
Step(op, bytes) == [op |-> op, bytes |-> bytes]

\* esp_port::send_cli_command: the command is written, then "\r\n", then the
\* port is flushed; each of the three can fail
SendCliCommand(cmd) ==
    << Step("command", cmd), Step("command", "\r\n"), Step("command", "") >>

\* send_cli_command for each of cmds in turn
SendCliCommands(cmds) ==
    [j \in 1..(3 * Len(cmds)) |-> SendCliCommand(cmds[((j - 1) \div 3) + 1])[((j - 1) % 3) + 1]]

\* a variant of the steps below in which the table file is created before
\* the port is opened
ConfigureStepsCreateFirst(mode, ssid, password, duration_secs) ==
    << Step("rerun-save", ""), Step("create", ""), Step("open", ""), Step("dtr", ""),
       Step("clear", "") >>
        \o SendCliCommands(WifiCommands(mode, ssid, password)
                               \o << StartCommand(duration_secs) >>)

\* everything record_csi_to_file does that can fail before the capture loop,
\* in order: the commands are followed by the start command and File::create
ConfigureSteps(mode, ssid, password, duration_secs) ==
    << Step("rerun-save", ""), Step("open", ""), Step("dtr", ""), Step("clear", "") >>
        \o SendCliCommands(WifiCommands(mode, ssid, password)
                               \o << StartCommand(duration_secs) >>)
        \o << Step("create", "") >>

\* what the first done of steps wrote to the port, write by write
Written(steps, done) ==
    LET writes == SelectSeq(SubSeq(steps, 1, done), LAMBDA st : st.bytes # "")
    IN  [k \in DOMAIN writes |-> writes[k].bytes]

\* the network name and the password of the sessions
Ssid == << "m", "y", " ", "n", "e", "t" >>
Password == << "p", " ", "w" >>

\* the worker thread of one session, just spawned
NewWorker(mode, secs, subcarrier, csv, plot_tx, heatmap_tx) ==
    [pc |-> "configure",
     mode |-> mode, duration_secs |-> secs, subcarrier |-> subcarrier, csv |-> csv,
     plot_tx |-> plot_tx, heatmap_tx |-> heatmap_tx,
     ssid |-> Ssid, password |-> Password,
     sent |-> <<>>,
     parser |-> NewParser, line_buffer |-> <<>>, header_written |-> FALSE,
     frame_idx |-> 0, lines_written |-> 0, csi_buffer |-> <<>>, packet_counter |-> 0,
     reads |-> 0, last_read |-> [kind |-> "none", chunk |-> 0],
     read_failed |-> FALSE, elapsed |-> FALSE,
     accepted |-> <<>>,
     read_log |-> <<>>, fed |-> <<>>,
     res |-> None]

\* a worker together with what it wrote to its file and sent on its channels
\* while handling one read
Ctx(w) == [w |-> w, wrote |-> <<>>, plot |-> <<>>, heat |-> <<>>]

\* the outcomes of the writes to the table file while one read is handled:
\* every write succeeds, the first write attempted fails, or the header line
\* (when one is due) succeeds and the row after it fails
WriteOutcomes == {"ok", "fails", "row_fails"}

\* a variant of the body below that never records that the header is
\* written, so that every row is preceded by a header line
HandlePacketHeaderEachRow(c, packet, writes) ==
    LET w == c.w
        header == << CsvHeader(Len(packet.csi_values)) >>
    IN  IF writes = "fails"
        THEN [c EXCEPT !.w.res = Some("Err:write")]
        ELSE IF writes = "row_fails"
        THEN [c EXCEPT !.w.res = Some("Err:write"), !.wrote = @ \o header]
        ELSE [c EXCEPT !.w.lines_written = @ + 1,
                       !.w.packet_counter = @ + 1,
                       !.w.frame_idx = @ + 1,
                       !.wrote = @ \o header \o << CsvRow(packet) >>]

\* the body of `if let Some(packet) = parser.feed_line(trimmed)`; writes tells
\* which writes to the table file succeed
HandlePacket(c, packet, writes) ==
    LET w == c.w
        header == IF w.header_written THEN <<>>
                  ELSE << CsvHeader(Len(packet.csi_values)) >>
    IN  IF writes = "fails"
        THEN [c EXCEPT !.w.res = Some("Err:write")]
        ELSE IF writes = "row_fails"
        THEN [c EXCEPT !.w.header_written = TRUE,
                       !.w.res = Some("Err:write"),
                       !.wrote = @ \o header]
        ELSE LET point == << w.reads, GetAmplitudesSq(packet)[w.subcarrier + 1] >>
                 ring0 == Append(w.csi_buffer, HeatmapRow(packet))
                 ring == IF Len(ring0) > HeatmapRingCapacity THEN Tail(ring0) ELSE ring0
                 counter == w.packet_counter + 1
             IN  [w |-> [w EXCEPT !.header_written = TRUE,
                                  !.lines_written = @ + 1,
                                  !.csi_buffer = ring,
                                  !.packet_counter = counter,
                                  !.frame_idx = @ + 1],
                  wrote |-> c.wrote \o header \o << CsvRow(packet) >>,
                  plot |-> IF w.plot_tx /\ w.subcarrier < Len(GetIqPairs(packet))
                           THEN Append(c.plot, point) ELSE c.plot,
                  heat |-> IF counter % HeatmapUpdateInterval = 0 /\ w.heatmap_tx
                           THEN Append(c.heat, ring) ELSE c.heat]

\* a variant of the line loop in which a bracketed line that yields no packet
\* is an error of the session
HandleLineStrict(c, line, writes) ==
    LET trimmed == Trim(line)
    IN  IF Len(trimmed) = 0 THEN c
        ELSE LET r == FeedLine(c.w.parser, trimmed)
                 fed == [c EXCEPT !.w.parser = r.self,
                                  !.w.accepted = @ \o r.ret,
                                  !.w.fed = Append(@, trimmed)]
             IN  IF IsSome(r.ret) THEN HandlePacket(fed, Unwrap(r.ret), writes)
                 ELSE IF StartsWith(trimmed, <<"[">>)
                 THEN [fed EXCEPT !.w.res = Some("Err:parse")]
                 ELSE fed

\* one pass of `while let Some(newline_pos) = line_buffer.find('\n')`
HandleLine(c, line, writes) ==
    LET trimmed == Trim(line)
    IN  IF Len(trimmed) = 0 THEN c
        ELSE LET r == FeedLine(c.w.parser, trimmed)
                 fed == [c EXCEPT !.w.parser = r.self,
                                  !.w.accepted = @ \o r.ret,
                                  !.w.fed = Append(@, trimmed)]
             IN  IF IsSome(r.ret) THEN HandlePacket(fed, Unwrap(r.ret), writes)
                 ELSE fed

RECURSIVE HandleLines(_, _, _, _)
\* the complete lines of the buffer, in order; a failed write returns at once
HandleLines(c, lines, i, writes) ==
    IF i > Len(lines) \/ IsSome(c.w.res) THEN c
    ELSE HandleLines(HandleLine(c, lines[i], writes), lines, i + 1, writes)

\* Ok(bytes_read) with bytes_read > 0 and valid UTF-8: the chunk is appended
\* to line_buffer and every complete line is drained and handled
HandleChunk(w, chunk, writes) ==
    LET buf == w.line_buffer \o chunk
        pieces == Split(buf, "\n")
        c == HandleLines(Ctx(w), SubSeq(pieces, 1, Len(pieces) - 1), 1, writes)
    IN  [c EXCEPT !.w.line_buffer = pieces[Len(pieces)]]

(***************************************************************************)
(* The serial device: the chunks a read can return.                        *)
(***************************************************************************)
CRLF == << "\r", "\n" >>

\* a payload line of 128 tokens, the third of which is not a number
NonNumericArrayLine ==
    << "[" >> \o JoinInts(GoodPayload, << "," >>, 1, 2) \o << ",", "x", "," >>
        \o JoinInts(GoodPayload, << "," >>, 4, ExpectedLen) \o << "]" >>

\* one well-formed frame
FrameChunk ==
    TimestampLine(1000) \o CRLF \o RssiLine(-40) \o CRLF \o MarkerLine \o CRLF
        \o ArrayLine(GoodPayload) \o CRLF

\* a blank line, a prompt, an unrecognized line, metadata that does not parse,
\* and an armed payload of the wrong length
GarbledChunk ==
    CRLF \o << ">", " " >> \o CRLF \o << "h", "e", "l", "l", "o" >> \o CRLF
        \o S_rssi \o << " ", "x" >> \o CRLF \o S_timestamp \o << " ", "-", "1" >> \o CRLF
        \o MarkerLine \o CRLF \o ArrayLine(ShortPayload) \o CRLF

\* complete metadata, then an armed payload with a non-numeric token
NonNumericChunk ==
    TimestampLine(2500) \o CRLF \o RssiLine(-40) \o CRLF \o MarkerLine \o CRLF
        \o NonNumericArrayLine \o CRLF

\* an armed payload of the expected length with no metadata before it
NoMetadataChunk == MarkerLine \o CRLF \o ArrayLine(GoodPayload) \o CRLF

\* two well-formed frames in one read, with different metadata
TwoFramesChunk ==
    FrameChunk \o TimestampLine(2500) \o CRLF \o RssiLine(-52) \o CRLF
        \o MarkerLine \o CRLF \o ArrayLine(LoudPayload) \o CRLF

\* one well-formed frame that arrives in two reads, cut inside its payload
\* line
FrameHeadChunk == SubSeq(FrameChunk, 1, Len(FrameChunk) - 100)
FrameTailChunk == SubSeq(FrameChunk, Len(FrameChunk) - 99, Len(FrameChunk))

Chunks ==
    << FrameChunk, GarbledChunk, NonNumericChunk, NoMetadataChunk, TwoFramesChunk,
       FrameHeadChunk, FrameTailChunk >>

\* a byte that is no UTF-8 text, and the bytes of a read that holds it before
\* a complete line
InvalidByte == "0xFF"
BadUtf8Bytes == << InvalidByte >> \o TimestampLine(2500) \o CRLF

\* the bytes a read brought
BytesOf(r) ==
    IF r.kind = "data" THEN Chunks[r.chunk]
    ELSE IF r.kind = "badutf8" THEN BadUtf8Bytes
    ELSE <<>>

MalformedChunkIds == {2, 3, 4}

\* the results of port.read: data (a chunk, or bytes that are not UTF-8), zero
\* bytes, the two expected error kinds, and any other I/O error
Data(k) == [kind |-> "data", chunk |-> k]
ReadZero == [kind |-> "zero", chunk |-> 0]
ReadBadUtf8 == [kind |-> "badutf8", chunk |-> 0]
ReadTimedOut == [kind |-> "TimedOut", chunk |-> 0]
ReadWouldBlock == [kind |-> "WouldBlock", chunk |-> 0]
ReadOtherError == [kind |-> "error", chunk |-> 0]

AllReads ==
    {Data(k) : k \in DOMAIN Chunks}
        \cup {ReadZero, ReadBadUtf8, ReadTimedOut, ReadWouldBlock, ReadOtherError}

(***************************************************************************)
(* Channels (std::sync::mpsc) and files.                                   *)
(***************************************************************************)
\* a channel just created: both halves alive, nothing queued; nsent and nrecv
\* count the messages accepted by send and returned by try_recv
NewChannel == [q |-> <<>>, tx |-> TRUE, rx |-> TRUE, nsent |-> 0, nrecv |-> 0]

\* Sender::send of each of msgs: an error when the receiver is gone, ignored
\* by every caller (`let _ = tx.send(..)`)
SendAll(ch, msgs) ==
    IF ch.rx THEN [ch EXCEPT !.q = @ \o msgs, !.nsent = @ + Len(msgs)] ELSE ch

\* the sender is dropped
DropTx(ch) == [ch EXCEPT !.tx = FALSE]

\* the receiver is dropped
DropRx(ch) == [ch EXCEPT !.rx = FALSE, !.q = <<>>]

\* Receiver::try_recv: a message, "Empty" or "Disconnected"
TryRecv(ch) ==
    IF Len(ch.q) > 0 THEN [kind |-> "Ok", msg |-> Some(Head(ch.q))]
    ELSE IF ~ch.tx THEN [kind |-> "Disconnected", msg |-> None]
    ELSE [kind |-> "Empty", msg |-> None]

\* a variant of the results below for a receive that waits (Receiver::recv):
\* nothing is returned while the queue is empty and the sender is alive
TryRecvReturnsWhenReady(ch) ==
    IF Len(ch.q) = 0 /\ ch.tx THEN {} ELSE {TryRecv(ch)}

\* the results with which a try_recv on ch can return in this state: it
\* returns at once, with the one result above
TryRecvReturns(ch) == {TryRecv(ch)}

Filenames == {"", "walk1"}

\* File::create: the file exists and is empty
CreateFile(fs, name) == [fs EXCEPT ![name] = Some(<<>>)]

\* writeln! on the worker's handle
AppendLines(fs, name, lines) ==
    IF IsSome(fs[name]) THEN [fs EXCEPT ![name] = Some(Unwrap(@) \o lines)] ELSE fs

(***************************************************************************)
(* The steps of a worker thread.                                           *)
(***************************************************************************)
\* record_csi_to_file returns: its senders are dropped with it
Returned(sid, w) ==
    /\ workers' = [workers EXCEPT ![sid] = [w EXCEPT !.pc = "returned"]]
    /\ plot_ch' = [plot_ch EXCEPT ![sid] = DropTx(@)]
    /\ heat_ch' = [heat_ch EXCEPT ![sid] = DropTx(@)]

\* everything before the capture loop; fail_at = 0 when every step succeeds,
\* else the index in ConfigureSteps of the step whose `?` returns the error;
\* the table file is created (emptied if it exists) once the File::create
\* step is among the steps done
WorkerConfigure(sid, fail_at) ==
    LET w == workers[sid]
        steps == ConfigureSteps(w.mode, w.ssid, w.password, w.duration_secs)
        done == IF fail_at = 0 THEN Len(steps) ELSE fail_at - 1
        cmds == Written(steps, done)
        created == \E k \in 1..done : steps[k].op = "create"
    IN  /\ w.pc = "configure"
        /\ fail_at \in 0..Len(steps)
        /\ fail_at \in device.fail_at
        /\ files' = IF created THEN CreateFile(files, w.csv) ELSE files
        /\ IF fail_at = 0
           THEN /\ workers' = [workers EXCEPT ![sid] =
                                  [w EXCEPT !.pc = "capture", !.sent = cmds]]
                /\ UNCHANGED <<plot_ch, heat_ch>>
           ELSE Returned(sid, [w EXCEPT !.sent = cmds,
                                       !.res = Some("Err:" \o steps[fail_at].op)])
        /\ UNCHANGED <<parserVars, app, uipc, done_ch, device>>

\* a variant of the sends below in which a refused send is an error of the
\* session (`tx.send(..)?`)
AfterSendChecked(w, ch, msgs) ==
    IF ~ch.rx /\ Len(msgs) > 0 /\ ~IsSome(w.res)
    THEN [w EXCEPT !.res = Some("Err:send")]
    ELSE w

\* `let _ = tx.send(..)` on the live-plot and heatmap channels: the worker
\* after the sends of one read; the error a send returns when its receiver
\* is gone is dropped
AfterSend(w, ch, msgs) == w

\* a variant of the arms below in which a timed-out read ends the loop
AfterIdleReadStopsOnTimeout(w, r) ==
    IF r.kind \in {"error", "TimedOut"}
    THEN [w EXCEPT !.pc = "flush", !.read_failed = TRUE]
    ELSE w

\* the arms of `match port.read(..)` for a read that brought no text: Ok(0),
\* bytes that are not UTF-8, TimedOut and WouldBlock go on with the loop, any
\* other error breaks out of it
AfterIdleRead(w, r) ==
    IF r.kind = "error"
    THEN [w EXCEPT !.pc = "flush", !.read_failed = TRUE]
    ELSE w

\* one iteration of the capture loop while the duration has not elapsed
WorkerRead(sid, r, writes) ==
    LET w == [workers[sid] EXCEPT !.reads = @ + 1, !.last_read = r,
                                  !.read_log = Append(@, r)]
    IN  /\ workers[sid].pc = "capture"
        /\ workers[sid].reads < MaxReads
        /\ r \in device.reads
        /\ writes \in device.writes
        /\ IF r.kind = "data"
           THEN \E c \in {HandleChunk(w, Chunks[r.chunk], writes)} :
                \E sent \in {AfterSend(AfterSend(c.w, plot_ch[sid], c.plot),
                                        heat_ch[sid], c.heat)} :
                    /\ files' = AppendLines(files, w.csv, c.wrote)
                    /\ IF IsSome(sent.res)
                       THEN /\ workers' = [workers EXCEPT ![sid] =
                                              [sent EXCEPT !.pc = "returned"]]
                            /\ plot_ch' = [plot_ch EXCEPT ![sid] = DropTx(SendAll(@, c.plot))]
                            /\ heat_ch' = [heat_ch EXCEPT ![sid] = DropTx(SendAll(@, c.heat))]
                       ELSE /\ workers' = [workers EXCEPT ![sid] = sent]
                            /\ plot_ch' = [plot_ch EXCEPT ![sid] = SendAll(@, c.plot)]
                            /\ heat_ch' = [heat_ch EXCEPT ![sid] = SendAll(@, c.heat)]
           ELSE /\ workers' = [workers EXCEPT ![sid] = AfterIdleRead(w, r)]
                /\ UNCHANGED <<files, plot_ch, heat_ch>>
        /\ UNCHANGED <<parserVars, app, uipc, done_ch, device>>

\* the loop condition fails: start.elapsed() has reached the duration
WorkerLeaveLoop(sid) ==
    /\ workers[sid].pc = "capture"
    /\ workers' = [workers EXCEPT ![sid].pc = "flush", ![sid].elapsed = TRUE]
    /\ UNCHANGED <<parserVars, app, uipc, done_ch, plot_ch, heat_ch, files, device>>

\* after the loop: csv_out.flush()?, the recording stream flush, Ok(())
WorkerFlush(sid, flush_ok) ==
    /\ workers[sid].pc = "flush"
    /\ flush_ok \in device.flush_ok
    /\ Returned(sid, [workers[sid] EXCEPT
                         !.res = IF flush_ok THEN Some("Ok") ELSE Some("Err:flush")])
    /\ UNCHANGED <<parserVars, app, uipc, done_ch, files, device>>

\* the thread closure: `let _ = tx.send(res)`, then the thread ends
WorkerSend(sid) ==
    /\ workers[sid].pc = "returned"
    /\ workers' = [workers EXCEPT ![sid].pc = "exited"]
    /\ done_ch' = [done_ch EXCEPT ![sid] = DropTx(SendAll(@, << Unwrap(workers[sid].res) >>))]
    /\ UNCHANGED <<parserVars, app, uipc, plot_ch, heat_ch, files, device>>

\* a panic inside record_csi_to_file (an index out of range, a library call
\* that panics): the thread unwinds, every sender it owns is dropped and
\* nothing is sent on the completion channel
WorkerPanic(sid) ==
    /\ workers[sid].pc \in {"configure", "capture", "flush"}
    /\ device.panics
    /\ workers' = [workers EXCEPT ![sid].pc = "panicked"]
    /\ done_ch' = [done_ch EXCEPT ![sid] = DropTx(@)]
    /\ plot_ch' = [plot_ch EXCEPT ![sid] = DropTx(@)]
    /\ heat_ch' = [heat_ch EXCEPT ![sid] = DropTx(@)]
    /\ UNCHANGED <<parserVars, app, uipc, files, device>>

(***************************************************************************)
(* Reading a table file back (read_data.rs, app/mod.rs).  A file is the    *)
(* sequence of lines written to it: a header line or the row of a packet.  *)
(***************************************************************************)
\* str::parse::<u8>()
ParseU8(s) ==
    IF Len(s) = 0 THEN None
    ELSE IF s = <<"+">> \/ s = <<"-">> THEN None
    ELSE IF s[1] = "+" THEN AccumulateUp(s, 2, 0, 255)
    ELSE AccumulateUp(s, 1, 0, 255)

\* Option::unwrap_or
UnwrapOr(o, default) == Head(o \o << default >>)

\* the cells of a line as load_heatmap_data reads them: a cell that parses as
\* u8 keeps its value, any other cell (a column name, a negative or large
\* number) becomes 0
HeatmapCells(line) ==
    IF line.kind = "header"
    THEN [k \in 1..(2 + 2 * line.pairs) |-> 0]
    ELSE [k \in 1..(2 + Len(line.packet.csi_values)) |->
             UnwrapOr(ParseU8(FmtInt(
                 IF k = 1 THEN line.packet.esp_timestamp
                 ELSE IF k = 2 THEN line.packet.rssi
                 ELSE line.packet.csi_values[k - 2])), 0)]

\* App::load_heatmap_data
LoadHeatmapData(a, fs, name) ==
    IF IsSome(fs[name]) /\ Len(Unwrap(fs[name])) > 0
    THEN [a EXCEPT !.heatmap_data =
            [k \in 1..Len(Unwrap(fs[name])) |-> HeatmapCells(Unwrap(fs[name])[k])]]
    ELSE a

\* the data rows of a file that load_csv_amplitude_series keeps: every line
\* after the first that has the I and Q columns of the subcarrier
ValidRows(lines, subcarrier) ==
    SelectSeq(Tail(lines),
              LAMBDA l : l.kind = "row" /\ Len(l.packet.csi_values) + 2 > 3 + 2 * subcarrier)

\* read_data::load_csv_amplitude_series: None for Err, else the points
\* (elapsed microseconds since the first row, I^2 + Q^2 of the subcarrier);
\* no table on which the sessions call it has a row whose timestamp is below
\* the first row's, so the u64 subtraction is the plain difference here
\* (SubU64 below covers the other tables)
LoadCsvAmplitudeSeries(content, subcarrier) ==
    IF ~IsSome(content) \/ Len(Unwrap(content)) = 0 THEN None
    ELSE LET rows == ValidRows(Unwrap(content), subcarrier)
         IN  Some([k \in 1..Len(rows) |->
                 << rows[k].packet.esp_timestamp - rows[1].packet.esp_timestamp,
                    GetAmplitudesSq(rows[k].packet)[subcarrier + 1] >>])

\* `name.trim().is_empty()` on the file names of the model, which hold at
\* most one space
IsBlankName(name) == name \in {"", " "}

\* App::load_file_for_plot
LoadFileForPlot(a, fs) ==
    IF IsBlankName(a.filename)
    THEN [a EXCEPT !.status = "Filename cannot be empty."]
    ELSE LET loaded == LoadCsvAmplitudeSeries(fs[a.filename], a.subcarrier)
             b == IF ~IsSome(loaded)
                  THEN [a EXCEPT !.status = "Failed to load"]
                  ELSE IF Len(Unwrap(loaded)) = 0
                  THEN [a EXCEPT !.status = "loaded but contained no valid data",
                                 !.step = "Finished"]
                  ELSE [a EXCEPT !.plot_points = Unwrap(loaded),
                                 !.status = "Loaded samples",
                                 !.step = "Finished"]
         IN  LoadHeatmapData(b, fs, a.filename)

(***************************************************************************)
(* The table file as text (csv_utils.rs) and its decoding (read_data.rs):  *)
(* a file is the sequence of its lines, a line a sequence of characters.   *)
(***************************************************************************)
S_header ==
    << "e", "s", "p", "_", "t", "i", "m", "e", "s", "t", "a", "m", "p", "_", "u", "s", ",", "r", "s", "s", "i" >>

RECURSIVE HeaderPairs(_, _)
\* ",i{},q{}" for the subcarriers lo..hi
HeaderPairs(lo, hi) ==
    IF lo > hi THEN <<>>
    ELSE IF lo = hi
    THEN << ",", "i" >> \o FmtNat(lo) \o << ",", "q" >> \o FmtNat(lo)
    ELSE LET mid == (lo + hi) \div 2
         IN  HeaderPairs(lo, mid) \o HeaderPairs(mid + 1, hi)

\* csv_utils::generate_csv_header
GenerateCsvHeader(num_csi_values) ==
    S_header \o HeaderPairs(0, (num_csi_values \div 2) - 1)

\* a variant of write_csv_line that leaves the rssi column out
WriteCsvLineNoRssi(packet) ==
    FmtInt(packet.esp_timestamp)
        \o (IF Len(packet.csi_values) = 0 THEN <<>>
            ELSE << "," >> \o JoinInts(packet.csi_values, << "," >>, 1,
                                       Len(packet.csi_values)))

\* csv_utils::write_csv_line: the line written, without its newline
WriteCsvLine(packet) ==
    FmtInt(packet.esp_timestamp) \o << "," >> \o FmtInt(packet.rssi)
        \o (IF Len(packet.csi_values) = 0 THEN <<>>
            ELSE << "," >> \o JoinInts(packet.csi_values, << "," >>, 1,
                                       Len(packet.csi_values)))

\* `line.split(',').map(|s| s.trim()).collect()`
TrimmedParts(line) ==
    LET parts == Split(line, ",")
    IN  [k \in 1..Len(parts) |-> Trim(parts[k])]

\* App::load_heatmap_data on the lines of a file: one row per line, one cell
\* per piece `line.split(',')` gives (one empty piece for an empty line), a
\* cell that parses as u8 kept and any other cell 0
HeatmapGridOf(lines) ==
    [k \in 1..Len(lines) |->
        LET cells == Split(lines[k], ",")
        IN  [c \in 1..Len(cells) |-> UnwrapOr(ParseU8(Trim(cells[c])), 0)]]

\* Heatmap::render in an area: the index pairs <<y, x>> of the reads
\* `self.values[y][x]`, the column count taken from row 0
RenderReads(values, area) ==
    IF Len(values) = 0 THEN {}
    ELSE { << y, x >> : y \in 0..(Min(Len(values), area.height) - 1),
                        x \in 0..(Min(Len(values[1]), area.width) - 1) }

\* one pass of the loop of load_csv_amplitude_series over a line after the
\* header: None when the line is skipped, else the timestamp, I and Q decoded
DecodeSeriesRow(raw, subcarrier) ==
    LET line == Trim(raw)
        parts == TrimmedParts(line)
        i_col == 2 + 2 * subcarrier
        q_col == 3 + 2 * subcarrier
    IN  IF Len(line) = 0 THEN None
        ELSE IF Len(parts) <= q_col THEN None
        ELSE LET ts == ParseU64(parts[1])
                 i == ParseI32(parts[i_col + 1])
                 q == ParseI32(parts[q_col + 1])
             IN  IF IsSome(ts) /\ IsSome(i) /\ IsSome(q)
                 THEN Some([ts |-> Unwrap(ts), i |-> Unwrap(i), q |-> Unwrap(q)])
                 ELSE None

\* the rows load_csv_amplitude_series decodes, in file order
DecodedSeriesRows(lines, subcarrier) ==
    LET decoded == [k \in 1..(Len(lines) - 1) |-> DecodeSeriesRow(lines[k + 1], subcarrier)]
        kept == SelectSeq(decoded, IsSome)
    IN  [k \in 1..Len(kept) |-> Unwrap(kept[k])]

\* `ts - ts0` on two u64 (read_data.rs 44): the difference when ts >= ts0;
\* when ts < ts0 a build with overflow checks panics (None) and a build
\* without them wraps around the width of the type
SubU64(ts, ts0, overflow_checks) ==
    IF ts >= ts0 THEN Some(ts - ts0)
    ELSE IF overflow_checks THEN None
    ELSE Some(ts - ts0 + U64ModelMax + 1)

\* read_data::load_csv_amplitude_series on the lines of a file, in a build
\* with or without overflow checks: whether the call panicked, and if not
\* its result, None for Err ("CSV file is empty"), else the points
\* (microseconds since the first decoded row, I^2 + Q^2 of the subcarrier)
LoadCsvSeries(lines, subcarrier, overflow_checks) ==
    IF Len(lines) = 0 THEN [panicked |-> FALSE, out |-> None]
    ELSE LET rows == DecodedSeriesRows(lines, subcarrier)
             t == [k \in 1..Len(rows) |-> SubU64(rows[k].ts, rows[1].ts, overflow_checks)]
         IN  IF \E k \in 1..Len(rows) : ~IsSome(t[k])
             THEN [panicked |-> TRUE, out |-> None]
             ELSE [panicked |-> FALSE,
                   out |-> Some([k \in 1..Len(rows) |->
                              << Unwrap(t[k]),
                                 rows[k].i * rows[k].i + rows[k].q * rows[k].q >>])]

\* the records csv::Reader yields for the lines of a file: empty lines are
\* skipped and a line is split on commas (no line of the model holds a quote)
CsvRecords(lines) ==
    LET kept == SelectSeq(lines, LAMBDA l : Len(l) > 0)
    IN  [k \in 1..Len(kept) |-> Split(kept[k], ",")]

\* `record.get(idx).unwrap_or("0").trim().parse().unwrap_or(0.0)`: the cells
\* of the model are integers of at most four digits, exact as f32, or text
\* that is no number
CellValue(record, idx) ==
    IF idx + 1 > Len(record) THEN 0
    ELSE UnwrapOr(ParseI32(Trim(record[idx + 1])), 0)

\* the first pass over one record: I^2 + Q^2 of every subcarrier
RawAmpRow(record, num_subcarriers) ==
    [sc \in 1..num_subcarriers |->
        CellValue(record, 2 * sc) * CellValue(record, 2 * sc)
            + CellValue(record, 2 * sc + 1) * CellValue(record, 2 * sc + 1)]

\* the smallest and the largest cell of the rows (global_min, global_max)
GlobalMin(rows) ==
    CHOOSE a \in {rows[r][c] : r \in DOMAIN rows, c \in DOMAIN rows[1]} :
        \A r \in DOMAIN rows : \A c \in DOMAIN rows[r] : a <= rows[r][c]
GlobalMax(rows) ==
    CHOOSE a \in {rows[r][c] : r \in DOMAIN rows, c \in DOMAIN rows[1]} :
        \A r \in DOMAIN rows : \A c \in DOMAIN rows[r] : a >= rows[r][c]

\* `((a_sq - global_min) / range).clamp(0.0, 1.0) * 100.0).round() as u8`:
\* round is to the nearest integer, halves away from zero
Scaled100(a_sq, global_min, range) ==
    (200 * (a_sq - global_min) + range) \div (2 * range)

\* a variant of the normalization below that returns no grid for a table
\* whose cells are all equal
NormalizeGridEmptyWhenFlat(raw, num_subcarriers) ==
    LET global_min == GlobalMin(raw)
        global_max == GlobalMax(raw)
    IN  IF global_max <= global_min THEN <<>>
        ELSE [r \in 1..Len(raw) |-> [c \in 1..num_subcarriers |->
                 Scaled100(raw[r][c], global_min, global_max - global_min)]]

\* a variant of the normalization below that scales every row between its
\* own smallest and largest cell
NormalizeGridPerRow(raw, num_subcarriers) ==
    [r \in 1..Len(raw) |->
        LET row_min == GlobalMin(<< raw[r] >>)
            row_max == GlobalMax(<< raw[r] >>)
        IN  [c \in 1..num_subcarriers |->
                IF row_max <= row_min THEN 0
                ELSE Scaled100(raw[r][c], row_min, row_max - row_min)]]

\* the degenerate-range guard and the second pass of load_csv_heatmap over the
\* rows of the first pass (at least one): integers are finite, so the guard
\* is global_max <= global_min
NormalizeGrid(raw, num_subcarriers) ==
    LET global_min == GlobalMin(raw)
        global_max == GlobalMax(raw)
    IN  IF global_max <= global_min
        THEN [r \in 1..Len(raw) |-> [c \in 1..num_subcarriers |-> 0]]
        ELSE [r \in 1..Len(raw) |-> [c \in 1..num_subcarriers |->
                 Scaled100(raw[r][c], global_min, global_max - global_min)]]

\* read_data::load_csv_heatmap on the lines of a file that exists: None for
\* Err (csv::Reader is not flexible: a record whose number of fields differs
\* from the header's is an UnequalLengths error), else the grid
LoadCsvHeatmap(lines) ==
    LET records == CsvRecords(lines)
        total_cols == IF Len(records) = 0 THEN 0 ELSE Len(records[1])
        num_iq_cols == total_cols - 2
        num_subcarriers == IF num_iq_cols % 2 # 0 THEN (num_iq_cols \div 2) - 1
                           ELSE num_iq_cols \div 2
    IN  IF total_cols < 4 THEN Some(<<>>)
        ELSE IF num_subcarriers = 0 THEN Some(<<>>)
        ELSE IF \E r \in 2..Len(records) : Len(records[r]) # total_cols THEN None
        ELSE IF Len(records) = 1 THEN Some(<<>>)
        ELSE Some(NormalizeGrid([r \in 1..(Len(records) - 1) |->
                                    RawAmpRow(records[r + 1], num_subcarriers)],
                                num_subcarriers))

(***************************************************************************)
(* App (app/mod.rs).                                                       *)
(***************************************************************************)
MaxPlotPoints == 2000

Port == "/dev/ttyACM0"

\* App::default, for what find_esp_port returned
NewApp(detected) ==
    [step |-> "EnterFilename",
     detected_port |-> detected,
     filename |-> "",
     status |-> IF IsSome(detected) THEN "Detected port" ELSE "No ESP port detected",
     worker_done_rx |-> None,
     plot_points |-> <<>>,
     subcarrier |-> 20,
     wifi_mode |-> "Sniffer",
     esp_port |-> detected,
     plot_rx |-> None,
     recording_start |-> FALSE,
     auto_switched |-> FALSE,
     full_screen_plot |-> FALSE,
     heatmap_data |-> <<>>,
     duration_input |-> <<>>,
     ssid |-> <<>>,
     password |-> <<>>,
     nav_selected |-> 0,
     nav_item_selected |-> 0,
     running |-> TRUE]

\* App::refresh_esp, for what find_esp_port returns now
RefreshEsp(a, new) ==
    [a EXCEPT !.esp_port = new,
              !.status = IF ~IsSome(a.esp_port) /\ IsSome(new) THEN "ESP connected"
                         ELSE IF IsSome(a.esp_port) /\ ~IsSome(new) THEN "ESP disconnect"
                         ELSE @]

\* the push of one live point in poll_plot_data
PushPoint(points, pt) ==
    IF Len(points) + 1 > MaxPlotPoints THEN Tail(Append(points, pt))
    ELSE Append(points, pt)

\* the loop of poll_plot_data over the queued points pts[i..], each pushed as
\* PushPoint does: a buffer below its capacity grows up to it, a buffer at or
\* above it keeps its length, and the points kept are the newest ones
PushPoints(points, pts, i) ==
    LET all == points \o SubSeq(pts, i, Len(pts))
        keep == IF Len(points) >= MaxPlotPoints THEN Len(points)
                ELSE Min(MaxPlotPoints, Len(all))
    IN  SubSeq(all, Len(all) - keep + 1, Len(all))

\* App::check_auto_switch; elapsed tells whether 10 s have passed since
\* recording_start
CheckAutoSwitch(a, elapsed) ==
    IF a.step = "Recording" /\ ~a.auto_switched /\ a.recording_start /\ elapsed
    THEN [a EXCEPT !.full_screen_plot = TRUE, !.auto_switched = TRUE]
    ELSE a

\* a variant of the fields below that keeps the receivers App already holds
StartRecordingFieldsKeepOldRx(a, sid) ==
    [a EXCEPT !.status = "Recording",
              !.step = "Recording",
              !.recording_start = TRUE,
              !.auto_switched = FALSE,
              !.full_screen_plot = FALSE,
              !.plot_points = <<>>,
              !.plot_rx = IF IsSome(@) THEN @ ELSE Some(sid),
              !.worker_done_rx = IF IsSome(@) THEN @ ELSE Some(sid)]

\* the fields App::start_recording sets when a port was detected; sid is the
\* session whose channels it creates
StartRecordingFields(a, sid) ==
    [a EXCEPT !.status = "Recording",
              !.step = "Recording",
              !.recording_start = TRUE,
              !.auto_switched = FALSE,
              !.full_screen_plot = FALSE,
              !.plot_points = <<>>,
              !.plot_rx = Some(sid),
              !.worker_done_rx = Some(sid)]

\* a variant of check_worker that keeps the completion receiver after a
\* result arrived
CheckWorkerResultKeepRx(a, r, fs) ==
    IF r.kind = "Ok" /\ Unwrap(r.msg) = "Ok"
    THEN [LoadFileForPlot([a EXCEPT !.status = "Recording finished successfully.",
                                    !.step = "Finished"], fs)
            EXCEPT !.recording_start = FALSE,
                   !.auto_switched = FALSE,
                   !.full_screen_plot = FALSE]
    ELSE IF r.kind = "Ok"
    THEN [a EXCEPT !.status = "Recording failed",
                   !.step = "Finished",
                   !.recording_start = FALSE,
                   !.auto_switched = FALSE,
                   !.full_screen_plot = FALSE]
    ELSE IF r.kind = "Empty"
    THEN a
    ELSE [a EXCEPT !.status = "Worker thread disconnected unexpectedly.",
                   !.step = "Finished",
                   !.worker_done_rx = None]

\* a variant of check_worker that takes a disconnected channel for an empty
\* one
CheckWorkerResultRetry(a, r, fs) ==
    IF r.kind = "Ok" /\ Unwrap(r.msg) = "Ok"
    THEN [LoadFileForPlot([a EXCEPT !.status = "Recording finished successfully.",
                                    !.step = "Finished"], fs)
            EXCEPT !.recording_start = FALSE,
                   !.auto_switched = FALSE,
                   !.full_screen_plot = FALSE,
                   !.worker_done_rx = None]
    ELSE IF r.kind = "Ok"
    THEN [a EXCEPT !.status = "Recording failed",
                   !.step = "Finished",
                   !.recording_start = FALSE,
                   !.auto_switched = FALSE,
                   !.full_screen_plot = FALSE,
                   !.worker_done_rx = None]
    ELSE a

\* App::check_worker for the value try_recv returned
CheckWorkerResult(a, r, fs) ==
    IF r.kind = "Ok" /\ Unwrap(r.msg) = "Ok"
    THEN [LoadFileForPlot([a EXCEPT !.status = "Recording finished successfully.",
                                    !.step = "Finished"], fs)
            EXCEPT !.recording_start = FALSE,
                   !.auto_switched = FALSE,
                   !.full_screen_plot = FALSE,
                   !.worker_done_rx = None]
    ELSE IF r.kind = "Ok"
    THEN [a EXCEPT !.status = "Recording failed",
                   !.step = "Finished",
                   !.recording_start = FALSE,
                   !.auto_switched = FALSE,
                   !.full_screen_plot = FALSE,
                   !.worker_done_rx = None]
    ELSE IF r.kind = "Empty"
    THEN a
    ELSE [a EXCEPT !.status = "Worker thread disconnected unexpectedly.",
                   !.step = "Finished",
                   !.worker_done_rx = None]

(***************************************************************************)
(* The steps of App::run: refresh_esp, poll_plot_data, check_auto_switch,  *)
(* the key event (if any), check_worker, and round again.                  *)
(***************************************************************************)
UiRefreshEsp(new) ==
    /\ uipc = "refresh_esp"
    /\ new \in device.ports
    /\ app' = RefreshEsp(app, new)
    /\ uipc' = "poll_plot_data"
    /\ UNCHANGED <<parserVars, workers, done_ch, plot_ch, heat_ch, files, device>>

\* App::poll_plot_data: everything queued is taken; a channel found
\* disconnected once empty is forgotten
UiPollPlotData ==
    /\ uipc = "poll_plot_data"
    /\ uipc' = "check_auto_switch"
    /\ IF IsSome(app.plot_rx)
       THEN LET sid == Unwrap(app.plot_rx)
                ch == plot_ch[sid]
            IN  /\ app' = [app EXCEPT
                             !.plot_points = PushPoints(@, ch.q, 1),
                             !.plot_rx = IF ch.tx THEN @ ELSE None]
                /\ plot_ch' = [plot_ch EXCEPT ![sid] =
                                 IF ch.tx THEN [ch EXCEPT !.q = <<>>] ELSE DropRx(ch)]
       ELSE UNCHANGED <<app, plot_ch>>
    /\ UNCHANGED <<parserVars, workers, done_ch, heat_ch, files, device>>

UiCheckAutoSwitch(elapsed) ==
    /\ uipc = "check_auto_switch"
    /\ elapsed \in device.elapsed
    /\ app' = CheckAutoSwitch(app, elapsed)
    /\ uipc' = "events"
    /\ UNCHANGED <<parserVars, workers, done_ch, plot_ch, heat_ch, files, device>>

\* event::poll times out, or the key pressed starts nothing
UiNoEvent ==
    /\ uipc = "events"
    /\ uipc' = "check_worker"
    /\ UNCHANGED <<parserVars, app, workers, done_ch, plot_ch, heat_ch, files, device>>

\* a key typed into the filename field leaves it holding name
UiEditFilename(name) ==
    /\ uipc = "events"
    /\ name # app.filename
    /\ app' = [app EXCEPT !.filename = name]
    /\ uipc' = "check_worker"
    /\ UNCHANGED <<parserVars, workers, done_ch, plot_ch, heat_ch, files, device>>

\* Ctrl+S with a filename and a duration that pass its validation:
\* App::start_recording(secs)
UiStartRecording(secs) ==
    /\ uipc = "events"
    /\ ~IsBlankName(app.filename)
    /\ uipc' = "check_worker"
    /\ IF ~IsSome(app.detected_port)
       THEN /\ app' = [app EXCEPT !.status = "No serial port detected",
                                  !.step = "Finished"]
            /\ UNCHANGED <<workers, done_ch, plot_ch, heat_ch>>
       ELSE LET sid == Len(workers) + 1
                dropped(chs, rx) ==
                    IF IsSome(rx) THEN [chs EXCEPT ![Unwrap(rx)] = DropRx(@)] ELSE chs
            IN  /\ Len(workers) < MaxSessions
                /\ app' = StartRecordingFields(app, sid)
                /\ workers' = Append(workers,
                       NewWorker(app.wifi_mode, secs, app.subcarrier, app.filename,
                                 TRUE, FALSE))
                /\ done_ch' = Append(dropped(done_ch, app.worker_done_rx), NewChannel)
                /\ plot_ch' = Append(dropped(plot_ch, app.plot_rx), NewChannel)
                /\ heat_ch' = Append(heat_ch, DropRx(DropTx(NewChannel)))
    /\ UNCHANGED <<parserVars, files, device>>

\* Enter pressed in the filename field (handle_filename_input): an empty
\* name is refused, any other name opens the table file of that name
UiEnterFilename ==
    /\ uipc = "events"
    /\ app.step = "EnterFilename"
    /\ uipc' = "check_worker"
    /\ app' = IF app.filename = ""
              THEN [app EXCEPT !.status = "Filename cannot be empty."]
              ELSE LoadFileForPlot(
                       [app EXCEPT !.step = "ChooseAction",
                                   !.status = "Press R to record new data"], files)
    /\ UNCHANGED <<parserVars, workers, done_ch, plot_ch, heat_ch, files, device>>

\* App::check_worker
UiCheckWorker ==
    /\ uipc = "check_worker"
    /\ uipc' = IF app.running THEN "refresh_esp" ELSE "stopped"
    /\ IF IsSome(app.worker_done_rx)
       THEN LET sid == Unwrap(app.worker_done_rx)
            IN  \E r \in TryRecvReturns(done_ch[sid]) :
                /\ app' = CheckWorkerResult(app, r, files)
                /\ done_ch' = [done_ch EXCEPT ![sid] =
                       IF r.kind = "Ok"
                       THEN DropRx([@ EXCEPT !.nrecv = @ + 1])
                       ELSE IF r.kind = "Disconnected" THEN DropRx(@)
                       ELSE @]
       ELSE UNCHANGED <<app, done_ch>>
    /\ UNCHANGED <<parserVars, workers, plot_ch, heat_ch, files, device>>

(***************************************************************************)
(* Spec: the UI thread and the worker threads of the sessions it starts.   *)
(***************************************************************************)
Durations == {3}

\* the environment of Spec: the device sends well-formed frames or its reads
\* fail, opening the port may fail, the disk does not, the worker may panic,
\* and the port found at construction stays the one found
SessionDevice(detected) ==
    [reads |-> {Data(1), ReadOtherError},
     fail_at |-> {0, 2},
     writes |-> {"ok"},
     flush_ok |-> {TRUE},
     panics |-> TRUE,
     elapsed |-> BOOLEAN,
     ports |-> {detected}]

\* an environment of SpecWorker: every result of a read, every failure
AnyDevice ==
    [reads |-> AllReads,
     fail_at |-> 0..Len(ConfigureSteps("Station", Ssid, Password, 3)),
     writes |-> WriteOutcomes,
     flush_ok |-> BOOLEAN,
     panics |-> TRUE,
     elapsed |-> BOOLEAN,
     ports |-> {Some(Port)}]

\* an environment of SpecWorker: the port, the commands and the disk work,
\* and the device sends anything, well-formed or not
NoisyDevice ==
    [reads |-> AllReads \ {ReadOtherError},
     fail_at |-> {0},
     writes |-> {"ok"},
     flush_ok |-> {TRUE},
     panics |-> FALSE,
     elapsed |-> BOOLEAN,
     ports |-> {Some(Port)}]

Init ==
    /\ parser = NewParser
    /\ hist = <<>>
    /\ ret = None
    /\ \E detected \in {None, Some(Port)} :
          /\ app = NewApp(detected)
          /\ device = SessionDevice(detected)
    /\ uipc = "refresh_esp"
    /\ workers = <<>>
    /\ done_ch = <<>>
    /\ plot_ch = <<>>
    /\ heat_ch = <<>>
    /\ files = [n \in Filenames |-> None]

WorkerNext ==
    \E sid \in 1..Len(workers) :
        \/ \E fail_at \in 0..Len(ConfigureSteps("Station", Ssid, Password, 3)) :
              WorkerConfigure(sid, fail_at)
        \/ \E r \in AllReads, writes \in WriteOutcomes : WorkerRead(sid, r, writes)
        \/ WorkerLeaveLoop(sid)
        \/ \E flush_ok \in BOOLEAN : WorkerFlush(sid, flush_ok)
        \/ WorkerSend(sid)
        \/ WorkerPanic(sid)

UiNext ==
    \/ \E new \in {None, Some(Port)} : UiRefreshEsp(new)
    \/ UiPollPlotData
    \/ \E elapsed \in BOOLEAN : UiCheckAutoSwitch(elapsed)
    \/ UiNoEvent
    \/ \E name \in Filenames : UiEditFilename(name)
    \/ \E secs \in Durations : UiStartRecording(secs)
    \/ UiCheckWorker

Next == UiNext \/ WorkerNext

Spec == Init /\ [][Next]_vars

\* the environment of SpecLive and SpecPlot: a port is found, the reads time
\* out, the worker may panic, and no session reaches its tenth second
QuietDevice ==
    [reads |-> {ReadTimedOut},
     fail_at |-> {0},
     writes |-> {"ok"},
     flush_ok |-> {TRUE},
     panics |-> TRUE,
     elapsed |-> {FALSE},
     ports |-> {Some(Port)}]

InitLive ==
    /\ parser = NewParser
    /\ hist = <<>>
    /\ ret = None
    /\ app = NewApp(Some(Port))
    /\ device = QuietDevice
    /\ uipc = "refresh_esp"
    /\ workers = <<>>
    /\ done_ch = <<>>
    /\ plot_ch = <<>>
    /\ heat_ch = <<>>
    /\ files = [n \in Filenames |-> None]

\* the sessions of a quiet device with the scheduling of App::run: the loop
\* keeps iterating, so a step of the UI thread that is possible is
\* eventually taken
SpecLive == InitLive /\ [][Next]_vars /\ WF_vars(UiNext)

(***************************************************************************)
(* SpecPlot: the UI thread with a table file of an earlier recording on    *)
(* disk, and the live samples of the running session arriving in bursts.   *)
(***************************************************************************)
\* the sizes of the bursts of live samples that can be queued between two
\* polls
BurstSizes == {1, 2000}

\* the rows of an earlier recording of n frames, under their header; the
\* second frame was one of strong signal
TableOfRows(n) ==
    << CsvHeader(ExpectedLen) >>
        \o [k \in 1..n |->
               CsvRow(CsiPacket(1000 + k, -40, IF k = 2 THEN LoudPayload ELSE GoodPayload))]

\* the tables an earlier recording can have left on disk: a short one, and
\* one with one row more than the live buffer holds
StoredTables == {TableOfRows(3), TableOfRows(MaxPlotPoints + 1)}

InitPlot ==
    /\ parser = NewParser
    /\ hist = <<>>
    /\ ret = None
    /\ app = NewApp(Some(Port))
    /\ device = QuietDevice
    /\ uipc = "refresh_esp"
    /\ workers = <<>>
    /\ done_ch = <<>>
    /\ plot_ch = <<>>
    /\ heat_ch = <<>>
    /\ \E t \in StoredTables :
          files = [n \in Filenames |-> IF n = "walk1" THEN Some(t) ELSE None]

\* the worker of the running session sends n live samples, the k-th sample
\* of the session carrying k as its time
LiveSamples(n) ==
    /\ IsSome(app.plot_rx)
    /\ LET sid == Unwrap(app.plot_rx)
           sent == plot_ch[sid].nsent
       IN  /\ workers[sid].reads < MaxReads
           /\ workers' = [workers EXCEPT ![sid].reads = @ + 1]
           /\ plot_ch' = [plot_ch EXCEPT ![sid] =
                             SendAll(@, [i \in 1..n |-> << sent + i, 0 >>])]
    /\ UNCHANGED <<parserVars, app, uipc, done_ch, heat_ch, files, device>>

NextPlot ==
    \/ \E new \in {None, Some(Port)} : UiRefreshEsp(new)
    \/ UiPollPlotData
    \/ \E elapsed \in BOOLEAN : UiCheckAutoSwitch(elapsed)
    \/ UiNoEvent
    \/ \E name \in Filenames : UiEditFilename(name)
    \/ UiEnterFilename
    \/ \E secs \in Durations : UiStartRecording(secs)
    \/ UiCheckWorker
    \/ \E n \in BurstSizes : LiveSamples(n)

SpecPlot == InitPlot /\ [][NextPlot]_vars

(***************************************************************************)
(* SpecCsv: a table file written line by line and read back.  files holds  *)
(* the text of the file, hist the lines written with the packet of each,   *)
(* ret the last load: the function called, the lines it read, its result.  *)
(***************************************************************************)
MaxRows == 3        \* lines written to the table after its header

\* the frames written: two subcarriers or 64, zero, signed and multi-digit
\* values, equal and different amplitudes
CsvPackets ==
    { CsiPacket(1000, -40, << 0, 0, 0, 0 >>),
      CsiPacket(2500, -52, << 0, 10, -6, 8 >>),
      CsiPacket(3000, 0, << 1, 0, 10, 10 >>),
      CsiPacket(U64ModelMax, -128, << -128, 127, 1000, -1 >>),
      CsiPacket(1000, -40, GoodPayload),
      CsiPacket(2500, -52, [i \in 1..ExpectedLen |-> 0]) }

\* lines no write_csv_line call produced: a blank line, a row of four
\* columns, a row whose timestamp is no number, a row with padded cells
ForeignLines ==
    { <<>>,
      << "7", ",", "-", "4", "0", ",", "1", ",", "2" >>,
      << "x", ",", "-", "4", "0", ",", "1", ",", "2", ",", "3", ",", "4" >>,
      << " ", "4", "0", "0", "0", " ", ",", " ", "-", "4", "0", " ", ",", " ", "3", " ", ",", " ", "4", " ", ",", " ", "0", " ", ",", " ", "5", " " >> }

Subcarriers == {0, 1, 2, 63}

InitCsv ==
    /\ parser = NewParser
    /\ hist = <<>>
    /\ ret = None
    /\ app = NewApp(Some(Port))
    /\ device = QuietDevice
    /\ uipc = "refresh_esp"
    /\ workers = <<>>
    /\ done_ch = <<>>
    /\ plot_ch = <<>>
    /\ heat_ch = <<>>
    /\ files = [n \in Filenames |-> IF n = "walk1" THEN Some(<<>>) ELSE None]

\* the writes of record_csi_to_file for one accepted frame: the header before
\* the first row, then the row; the frames of a file have one length
CsvWritePacket(p) ==
    /\ Len(hist) < MaxRows
    /\ \A h \in 1..Len(hist) :
          IsSome(hist[h].packet) =>
              Len(Unwrap(hist[h].packet).csi_values) = Len(p.csi_values)
    /\ LET text == Unwrap(files["walk1"])
           header == IF \E h \in 1..Len(hist) : IsSome(hist[h].packet) THEN <<>>
                     ELSE << GenerateCsvHeader(Len(p.csi_values)) >>
       IN  files' = [files EXCEPT !["walk1"] =
                        Some(text \o header \o << WriteCsvLine(p) >>)]
    /\ hist' = Append(hist, [packet |-> Some(p), line |-> WriteCsvLine(p)])
    /\ UNCHANGED <<parser, ret, sessionVarsButFiles>>

\* a line that is not a row of the recording gets into a file that has its
\* header
CsvForeignLine(l) ==
    /\ Len(hist) < MaxRows
    /\ Unwrap(files["walk1"]) # <<>>
    /\ files' = [files EXCEPT !["walk1"] = Some(Append(Unwrap(@), l))]
    /\ hist' = Append(hist, [packet |-> None, line |-> l])
    /\ UNCHANGED <<parser, ret, sessionVarsButFiles>>

\* load_csv_amplitude_series(path, subcarrier), in either build
CsvLoadSeries(subcarrier) ==
    /\ \E overflow_checks \in BOOLEAN :
          \E r \in {LoadCsvSeries(Unwrap(files["walk1"]), subcarrier, overflow_checks)} :
              ret' = [fn |-> "series", subcarrier |-> subcarrier,
                      lines |-> Unwrap(files["walk1"]),
                      overflow_checks |-> overflow_checks,
                      panicked |-> r.panicked,
                      out |-> r.out]
    /\ UNCHANGED <<parser, hist, sessionVars>>

\* load_csv_heatmap(path)
CsvLoadHeatmap ==
    /\ ret' = [fn |-> "heatmap", subcarrier |-> 0,
               lines |-> Unwrap(files["walk1"]),
               overflow_checks |-> FALSE,
               panicked |-> FALSE,
               out |-> LoadCsvHeatmap(Unwrap(files["walk1"]))]
    /\ UNCHANGED <<parser, hist, sessionVars>>

NextCsv ==
    \/ \E p \in CsvPackets : CsvWritePacket(p)
    \/ \E l \in ForeignLines : CsvForeignLine(l)
    \/ \E k \in Subcarriers : CsvLoadSeries(k)
    \/ CsvLoadHeatmap

SpecCsv == InitCsv /\ [][NextCsv]_vars

(***************************************************************************)
(* SpecForeign: load_csv_heatmap and load_csv_amplitude_series on a table  *)
(* that no recording wrote, whose header has a stray column after its last *)
(* complete i/q pair.                                                      *)
(***************************************************************************)
\* headers of five and of seven columns
OddHeaders ==
    { GenerateCsvHeader(2) \o << ",", "i", "1" >>,
      GenerateCsvHeader(4) \o << ",", "i", "2" >> }

\* a blank line and rows of seven, seven and five columns
OddRows ==
    { <<>>,
      << "1", ",", "-", "4", "0", ",", "3", ",", "4", ",", "0", ",", "5", ",", "9" >>,
      << "2", ",", "-", "4", "0", ",", "0", ",", "0", ",", "6", ",", "8", ",", "1" >>,
      << "3", ",", "-", "4", "0", ",", "1", ",", "1", ",", "2" >> }

InitForeign ==
    /\ parser = NewParser
    /\ hist = <<>>
    /\ ret = None
    /\ app = NewApp(Some(Port))
    /\ device = QuietDevice
    /\ uipc = "refresh_esp"
    /\ workers = <<>>
    /\ done_ch = <<>>
    /\ plot_ch = <<>>
    /\ heat_ch = <<>>
    /\ \E header \in OddHeaders :
          files = [n \in Filenames |-> IF n = "walk1" THEN Some(<< header >>) ELSE None]

\* load_heatmap_data(path): the grid that replaces heatmap_data, None when
\* the file has no line and heatmap_data is left as it was
CsvLoadHeatmapData ==
    /\ ret' = [fn |-> "grid", subcarrier |-> 0,
               lines |-> Unwrap(files["walk1"]),
               overflow_checks |-> FALSE,
               panicked |-> FALSE,
               out |-> IF Len(Unwrap(files["walk1"])) = 0 THEN None
                       ELSE Some(HeatmapGridOf(Unwrap(files["walk1"])))]
    /\ UNCHANGED <<parser, hist, sessionVars>>

NextForeign ==
    \/ \E l \in OddRows : CsvForeignLine(l)
    \/ \E k \in Subcarriers : CsvLoadSeries(k)
    \/ CsvLoadHeatmap
    \/ CsvLoadHeatmapData

SpecForeign == InitForeign /\ [][NextForeign]_vars

(***************************************************************************)
(* SpecKeys: the UI thread with its key events handled key by key          *)
(* (App::on_key_event), and the worker of the session the keys start.      *)
(***************************************************************************)
MaxKeySessions == 1  \* recording sessions started by the keys

\* the characters typed: a digit (also a letter of a file name), zero, space
KeyChars == {"3", "0", " "}

\* the digits the duration field takes here
FieldChars == {"3", "0"}

\* the key presses: Esc, Ctrl+S, a character, Backspace, Enter, Tab, Up, Down
Keys ==
    {[code |-> k, c |-> ""] :
        k \in {"Esc", "CtrlS", "Backspace", "Enter", "Tab", "Up", "Down"}}
    \cup {[code |-> "Char", c |-> c] : c \in KeyChars}

\* the texts the duration field holds here: at most one digit
TextValues == {<<>>} \cup {<< c >> : c \in FieldChars}

\* the file names typed here: at most the one character "3"
KeyNames == {"", "3"}

\* String::pop on a text and on a file name
PopText(t) == IF Len(t) = 0 THEN t ELSE SubSeq(t, 1, Len(t) - 1)

PopName(s) ==
    IF s = "" THEN "" ELSE CHOOSE t \in KeyNames : \E c \in KeyChars : t \o c = s

\* the .csv and .rrd files read_dir finds: the tables on disk and the rerun
\* files of the workers that got past the rerun save
DirEntries(fs, ws) ==
    {<< n, "csv" >> : n \in {m \in DOMAIN fs : IsSome(fs[m])}}
    \cup {<< ws[s].csv, "rrd" >> :
             s \in {i \in 1..Len(ws) : ws[i].pc # "configure"
                                         /\ ws[i].res # Some("Err:rerun-save")}}

\* a key handled without a call of start_recording
KeyDone(a) == [app |-> a, start |-> None]

\* `match self.duration_input.parse() { Ok(v) if v > 0 => v, _ => .. }`
\* followed by start_recording(secs), which the action carries out
StartOrRefuse(a) ==
    LET secs == ParseU64(a.duration_input)
    IN  IF IsSome(secs) /\ Unwrap(secs) > 0 THEN [app |-> a, start |-> secs]
        ELSE KeyDone([a EXCEPT !.status = "Duration must be a positive integer."])

\* the Enter arm of the controls pane and of handle_filename_input
EnterOnFilename(a, fs) ==
    IF a.filename = "" THEN [a EXCEPT !.status = "Filename cannot be empty."]
    ELSE LoadFileForPlot([a EXCEPT !.step = "ChooseAction",
                                   !.status = "Press R to record new data"], fs)

\* the first match of on_key_event on key.code: Some(outcome) when the arm
\* taken returns, None when the match falls through
FieldKey(a, key, fs) ==
    LET item == a.nav_item_selected
    IN  IF a.nav_selected # 0 THEN None
        ELSE IF key.code = "Char" /\ item \in 2..5
        THEN Some(KeyDone(
                 IF item = 2 THEN [a EXCEPT !.ssid = Append(@, key.c)]
                 ELSE IF item = 3 THEN [a EXCEPT !.password = Append(@, key.c)]
                 ELSE IF item = 4
                 THEN (IF IsDigit(key.c) THEN [a EXCEPT !.duration_input = Append(@, key.c)]
                       ELSE a)
                 ELSE [a EXCEPT !.filename = @ \o key.c]))
        ELSE IF key.code = "Backspace" /\ item \in 2..5
        THEN Some(KeyDone(
                 IF item = 2 THEN [a EXCEPT !.ssid = PopText(@)]
                 ELSE IF item = 3 THEN [a EXCEPT !.password = PopText(@)]
                 ELSE IF item = 4 THEN [a EXCEPT !.duration_input = PopText(@)]
                 ELSE [a EXCEPT !.filename = PopName(@)]))
        ELSE IF key.code = "Enter" /\ item = 5
        THEN Some(KeyDone(EnterOnFilename(a, fs)))
        ELSE None

\* the second match: Tab, Up, Down and Space; files_len is the number of
\* entries read_dir finds and selected the name (without its extension) of
\* the entry at nav_item_selected in the order read_dir gave
NavKey(a, key, fs, files_len, selected) ==
    LET item == a.nav_item_selected
    IN  IF key.code = "Tab"
        THEN Some(KeyDone([a EXCEPT !.nav_selected = (@ + 1) % 2,
                                    !.nav_item_selected = 0]))
        ELSE IF key.code = "Up"
        THEN Some(KeyDone(
                 IF item > 0 /\ (a.nav_selected = 0 \/ files_len > 0)
                 THEN [a EXCEPT !.nav_item_selected = @ - 1] ELSE a))
        ELSE IF key.code = "Down"
        THEN Some(KeyDone(
                 IF a.nav_selected = 0
                 THEN (IF item + 1 < 6 THEN [a EXCEPT !.nav_item_selected = @ + 1] ELSE a)
                 ELSE (IF files_len > 0 /\ item + 1 < files_len
                       THEN [a EXCEPT !.nav_item_selected = @ + 1] ELSE a)))
        ELSE IF key.code = "Char" /\ key.c = " "
        THEN Some(KeyDone(
                 IF a.nav_selected = 0
                 THEN (IF item = 0 THEN [a EXCEPT !.wifi_mode = "Sniffer"]
                       ELSE IF item = 1 THEN [a EXCEPT !.wifi_mode = "Station"]
                       ELSE a)
                 ELSE (IF files_len > 0 /\ item < files_len
                       THEN LoadFileForPlot([a EXCEPT !.filename = selected], fs)
                       ELSE a)))
        ELSE None

\* handle_filename_input
HandleFilenameInput(a, key, fs) ==
    IF key.code = "Char" THEN [a EXCEPT !.filename = @ \o key.c]
    ELSE IF key.code = "Backspace" THEN [a EXCEPT !.filename = PopName(@)]
    ELSE IF key.code = "Enter" THEN EnterOnFilename(a, fs)
    ELSE a

\* handle_duration_input
HandleDurationInput(a, key) ==
    IF key.code = "Char" /\ IsDigit(key.c)
    THEN KeyDone([a EXCEPT !.duration_input = Append(@, key.c)])
    ELSE IF key.code = "Backspace"
    THEN KeyDone([a EXCEPT !.duration_input = PopText(@)])
    ELSE IF key.code = "Enter"
    THEN (IF Len(a.duration_input) = 0
          THEN KeyDone([a EXCEPT !.status = "Duration cannot be empty."])
          ELSE StartOrRefuse(a))
    ELSE KeyDone(a)

\* App::on_key_event up to its call of start_recording: the quit keys,
\* Ctrl+S, the three matches on key.code (the third repeats the first and
\* returns in no case the first did not) and the match on the step
OnKeyEvent(a, key, fs, files_len, selected) ==
    IF key.code = "Esc" THEN KeyDone([a EXCEPT !.running = FALSE])
    ELSE IF key.code = "CtrlS"
    THEN (IF IsBlankName(a.filename)
          THEN KeyDone([a EXCEPT !.status = "Filename cannot be empty."])
          ELSE IF Len(Trim(a.duration_input)) = 0
          THEN KeyDone([a EXCEPT !.status = "Duration cannot be empty."])
          ELSE StartOrRefuse(a))
    ELSE IF IsSome(FieldKey(a, key, fs)) THEN Unwrap(FieldKey(a, key, fs))
    ELSE IF IsSome(NavKey(a, key, fs, files_len, selected))
    THEN Unwrap(NavKey(a, key, fs, files_len, selected))
    ELSE IF a.step = "EnterFilename" THEN KeyDone(HandleFilenameInput(a, key, fs))
    ELSE IF a.step \in {"ChooseAction", "EnterDuration"} THEN HandleDurationInput(a, key)
    ELSE KeyDone(a)

\* handle_crossterm_events with a key pressed: on_key_event, and
\* App::start_recording when the key leads to it
UiKey(key) ==
    /\ uipc = "events"
    /\ uipc' = "check_worker"
    /\ \E entries \in {DirEntries(files, workers)} :
       \E selected \in (IF entries = {} THEN {""} ELSE {en[1] : en \in entries}) :
       \E r \in {OnKeyEvent(app, key, files, Cardinality(entries), selected)} :
          /\ r.app.filename \in KeyNames
          /\ r.app.duration_input \in TextValues
          /\ {r.app.ssid, r.app.password} \subseteq {<<>>, << "3" >>}
          /\ Len(r.app.ssid) + Len(r.app.password) <= 1
          /\ IF ~IsSome(r.start)
             THEN /\ app' = r.app
                  /\ UNCHANGED <<workers, done_ch, plot_ch, heat_ch>>
             ELSE IF ~IsSome(r.app.detected_port)
             THEN /\ app' = [r.app EXCEPT !.status = "No serial port detected",
                                          !.step = "Finished"]
                  /\ UNCHANGED <<workers, done_ch, plot_ch, heat_ch>>
             ELSE LET sid == Len(workers) + 1
                      dropped(chs, rx) ==
                          IF IsSome(rx) THEN [chs EXCEPT ![Unwrap(rx)] = DropRx(@)] ELSE chs
                  IN  /\ Len(workers) < MaxKeySessions
                      /\ app' = StartRecordingFields(r.app, sid)
                      /\ workers' = Append(workers,
                             NewWorker(r.app.wifi_mode, Unwrap(r.start), r.app.subcarrier,
                                       r.app.filename, TRUE, FALSE))
                      /\ done_ch' = Append(dropped(done_ch, r.app.worker_done_rx), NewChannel)
                      /\ plot_ch' = Append(dropped(plot_ch, r.app.plot_rx), NewChannel)
                      /\ heat_ch' = Append(heat_ch, DropRx(DropTx(NewChannel)))
    /\ UNCHANGED <<parserVars, files, device>>

\* the environment of SpecKeys: the port found at construction (if any)
\* stays the one found and cannot be opened (another program holds it), so
\* every worker returns the error of the open
KeysDevice(detected) ==
    [reads |-> {},
     fail_at |-> {2},
     writes |-> {"ok"},
     flush_ok |-> {TRUE},
     panics |-> FALSE,
     elapsed |-> {FALSE},
     ports |-> {detected}]

\* the table "3.csv" of an earlier recording is on disk, or no table is
InitKeys ==
    /\ parser = NewParser
    /\ hist = <<>>
    /\ ret = None
    /\ \E detected \in {None, Some(Port)} :
          /\ app = NewApp(detected)
          /\ device = KeysDevice(detected)
    /\ uipc = "refresh_esp"
    /\ workers = <<>>
    /\ done_ch = <<>>
    /\ plot_ch = <<>>
    /\ heat_ch = <<>>
    /\ \E stored \in BOOLEAN :
          files = [n \in KeyNames |->
                     IF stored /\ n = "3" THEN Some(TableOfRows(1)) ELSE None]

NextKeys ==
    \/ \E new \in {None, Some(Port)} : UiRefreshEsp(new)
    \/ UiPollPlotData
    \/ \E elapsed \in BOOLEAN : UiCheckAutoSwitch(elapsed)
    \/ UiNoEvent
    \/ \E key \in Keys : UiKey(key)
    \/ UiCheckWorker
    \/ \E sid \in 1..Len(workers) : WorkerConfigure(sid, 2)
    \/ \E sid \in 1..Len(workers) : WorkerSend(sid)

SpecKeys == InitKeys /\ [][NextKeys]_vars

(***************************************************************************)
(* SpecWorker: one worker thread alone, reading whatever the port can      *)
(* return, with both of its receivers kept alive, in an environment where  *)
(* every step can fail or in one where only the device misbehaves.         *)
(***************************************************************************)
InitWorker ==
    /\ parser = NewParser
    /\ hist = <<>>
    /\ ret = None
    /\ app = NewApp(Some(Port))
    /\ uipc = "none"
    /\ \E mode \in {"Sniffer", "Station"} :
          workers = << NewWorker(mode, 3, 20, "walk1", TRUE, TRUE) >>
    /\ done_ch = << NewChannel >>
    /\ plot_ch = << NewChannel >>
    /\ heat_ch = << NewChannel >>
    /\ files = [n \in Filenames |-> None]
    /\ device \in {AnyDevice, NoisyDevice}

SpecWorker == InitWorker /\ [][WorkerNext]_vars

\* SpecRerecord: the worker of a session whose name is that of an earlier
\* recording, or of none, in an environment where every step can fail
InitRerecord ==
    /\ parser = NewParser
    /\ hist = <<>>
    /\ ret = None
    /\ app = NewApp(Some(Port))
    /\ uipc = "none"
    /\ \E mode \in {"Sniffer", "Station"} :
          workers = << NewWorker(mode, 3, 20, "walk1", TRUE, TRUE) >>
    /\ done_ch = << NewChannel >>
    /\ plot_ch = << NewChannel >>
    /\ heat_ch = << NewChannel >>
    /\ \E recorded \in BOOLEAN :
          files = [n \in Filenames |->
                     IF recorded /\ n = "walk1"
                     THEN Some(<< CsvHeader(ExpectedLen),
                                  CsvRow(CsiPacket(2500, -40, GoodPayload)) >>)
                     ELSE None]
    /\ device = AnyDevice

SpecRerecord == InitRerecord /\ [][WorkerNext]_vars

\* the worker thread as the operating system runs it: its reads return and
\* the clock advances, so the loop test eventually finds the duration
\* elapsed, and the thread then runs on through the flush and the send
SpecWorkerFair ==
    /\ InitWorker
    /\ [][WorkerNext]_vars
    /\ WF_vars(WorkerLeaveLoop(1))
    /\ WF_vars(\E flush_ok \in BOOLEAN : WorkerFlush(1, flush_ok))
    /\ WF_vars(WorkerSend(1))

(***************************************************************************)
(* SpecDetached: one worker thread alone whose live-plot and heatmap       *)
(* receivers may be gone, fresh or with 99 frames behind it, so that its   *)
(* next frame is the one a heatmap is sent after.                          *)
(***************************************************************************)
\* the frame the device sent so far
SeenPacket == CsiPacket(1000, -40, GoodPayload)

\* the worker at the top of its capture loop after n frames, n >= 1 and
\* below the heatmap interval; the read counter restarts for the reads to
\* come
WorkerAfterFrames(n, mode) ==
    [NewWorker(mode, 3, 20, "walk1", TRUE, TRUE) EXCEPT
        !.pc = "capture",
        !.sent = LET steps == ConfigureSteps(mode, Ssid, Password, 3)
                 IN  Written(steps, Len(steps)),
        !.header_written = TRUE,
        !.frame_idx = n,
        !.lines_written = n,
        !.packet_counter = n,
        !.csi_buffer = [k \in 1..Min(n, HeatmapRingCapacity) |-> HeatmapRow(SeenPacket)],
        !.accepted = [k \in 1..n |-> SeenPacket]]

InitDetached ==
    /\ parser = NewParser
    /\ hist = <<>>
    /\ ret = None
    /\ app = NewApp(Some(Port))
    /\ uipc = "none"
    /\ \E mode \in {"Sniffer", "Station"}, n \in {0, HeatmapUpdateInterval - 1} :
          /\ workers = << IF n = 0 THEN NewWorker(mode, 3, 20, "walk1", TRUE, TRUE)
                          ELSE WorkerAfterFrames(n, mode) >>
          /\ files = [f \in Filenames |->
                        IF f = "walk1" /\ n > 0
                        THEN Some(<< CsvHeader(ExpectedLen) >>
                                     \o [k \in 1..n |-> CsvRow(SeenPacket)])
                        ELSE None]
    /\ done_ch = << NewChannel >>
    /\ plot_ch \in {<< NewChannel >>, << DropRx(NewChannel) >>}
    /\ heat_ch \in {<< NewChannel >>, << DropRx(NewChannel) >>}
    /\ device \in {AnyDevice, NoisyDevice}

SpecDetached == InitDetached /\ [][WorkerNext]_vars

(***************************************************************************)
(* SpecParser: one fresh parser fed any sequence of at most MaxFed lines.  *)
(* hist records, per call, the line fed, the parser before the call and    *)
(* whether the call returned a packet; ret is the value the last call      *)
(* returned.                                                               *)
(***************************************************************************)
InitParser ==
    /\ parser = NewParser
    /\ hist = <<>>
    /\ ret = None
    /\ app = <<>>
    /\ uipc = "none"
    /\ workers = <<>>
    /\ done_ch = <<>>
    /\ plot_ch = <<>>
    /\ heat_ch = <<>>
    /\ files = <<>>
    /\ device = <<>>

Feed(k) ==
    /\ Len(hist) < MaxFed
    /\ \E r \in {FeedLine(parser, InputLines[k])} :
           /\ parser' = r.self
           /\ ret' = r.ret
           /\ hist' = Append(hist, [line |-> k, pre |-> parser,
                                    emitted |-> IsSome(r.ret)])
    /\ UNCHANGED sessionVars

NextParser == \E k \in DOMAIN InputLines : Feed(k)

SpecParser == InitParser /\ [][NextParser]_vars

(***************************************************************************)
(* SpecNoisy: one fresh parser fed the lines of one frame in any order     *)
(* among lines that carry nothing.  hist and ret are as in SpecParser.     *)
(***************************************************************************)
MaxNoisyFed == 5    \* lines fed to the parser in SpecNoisy

\* the lines SpecNoisy feeds, by index: the four lines of a frame, a blank
\* line, a prompt, a line of other text, two metadata lines whose value does
\* not parse, and a bracketed line of the wrong length
NoisyLines ==
    << TimestampLine(1000), RssiLine(-40), MarkerLine, ArrayLine(GoodPayload),
       << " ", "	" >>,
       << " ", ">", " ", "l", "s" >>,
       << "h", "e", "l", "l", "o" >>,
       S_rssi \o << " ", "x" >>,
       S_timestamp \o << " ", "-", "1" >>,
       ArrayLine(ShortPayload) >>

FeedNoisy(k) ==
    /\ Len(hist) < MaxNoisyFed
    /\ \E r \in {FeedLine(parser, NoisyLines[k])} :
           /\ parser' = r.self
           /\ ret' = r.ret
           /\ hist' = Append(hist, [line |-> k, pre |-> parser,
                                    emitted |-> IsSome(r.ret)])
    /\ UNCHANGED sessionVars

NextNoisy == \E k \in DOMAIN NoisyLines : FeedNoisy(k)

SpecNoisy == InitParser /\ [][NextNoisy]_vars

\* the text of the line fed by call i, and the parser after call i
LineAt(i) == InputLines[hist[i].line]
PostAt(i) == IF i = Len(hist) THEN parser ELSE hist[i + 1].pre

\* call i fed a bracketed line to an armed parser (the payload branch)
ConsumedAt(i) ==
    /\ hist[i].pre.waiting_for_csi_line
    /\ StartsWith(Trim(LineAt(i)), <<"[">>)

\* calls i..i+3 fed a well-formed sequence for (ts, rssi, GoodPayload)
WellFormedAt(i, ts, rssi) ==
    /\ i + 3 <= Len(hist)
    /\ LineAt(i) = TimestampLine(ts)
    /\ LineAt(i + 1) = RssiLine(rssi)
    /\ LineAt(i + 2) = MarkerLine
    /\ LineAt(i + 3) = ArrayLine(GoodPayload)

(***************************************************************************)
(* Claims about the line parser, checked under SpecParser.                 *)
(***************************************************************************)
Last == Len(hist)

\* C1: a fresh parser fed timestamp line, signal-strength line, marker line
\* and a bracketed line of 128 values returns nothing for the first three
\* calls and, for the fourth, one packet with exactly the timestamp, the
\* signal strength and the values fed, in the same order.
C1_FreshSequenceEmitsFrame ==
    \A ts \in Timestamps, rssi \in Rssis :
        (Last = 4 /\ WellFormedAt(1, ts, rssi)) =>
            /\ \A i \in 1..3 : ~hist[i].emitted
            /\ ret = Some(CsiPacket(ts, rssi, GoodPayload))

C1_Witness ==
    /\ Last = 4
    /\ WellFormedAt(1, 2500, -40)
    /\ IsSome(ret)

\* call m stored a pending timestamp / a pending signal strength
StoredTimestampAt(m) ==
    /\ IsSome(StripPrefix(Trim(LineAt(m)), S_timestamp))
    /\ IsSome(ParseU64(Trim(Unwrap(StripPrefix(Trim(LineAt(m)), S_timestamp)))))

StoredRssiAt(m) ==
    /\ ~StartsWith(Trim(LineAt(m)), <<">">>)
    /\ IsSome(StripPrefix(Trim(LineAt(m)), S_rssi))
    /\ IsSome(ParseI32(Trim(Unwrap(StripPrefix(Trim(LineAt(m)), S_rssi)))))

\* the packet emitted by call j carries only metadata stored after call i
FreshMetadataAfter(i, j) ==
    /\ \E m \in (i + 1)..(j - 1) : StoredTimestampAt(m)
    /\ \E m \in (i + 1)..(j - 1) : StoredRssiAt(m)

\* C3, the reset: when an armed bracketed payload of the expected length is
\* consumed while the pending timestamp or the pending signal strength is
\* missing, the call returns nothing and afterwards both pending fields are
\* empty and the armed flag is clear.
C3_IncompleteFrameClearsPending ==
    (/\ Last >= 1
     /\ ConsumedAt(Last)
     /\ Len(ParseCsiArray(LineAt(Last))) = ExpectedLen
     /\ (~IsSome(hist[Last].pre.current_timestamp)
            \/ ~IsSome(hist[Last].pre.current_rssi)))
    => /\ ret = None
       /\ parser = NewParser

\* C3, the consequence: a value left pending by such a call is never used by
\* a later packet.
C3_DroppedMetadataNeverUsed ==
    \A i \in 1..Last : \A j \in (i + 1)..Last :
        (/\ ConsumedAt(i)
         /\ Len(ParseCsiArray(LineAt(i))) = ExpectedLen
         /\ ~hist[i].emitted
         /\ hist[j].emitted)
        => FreshMetadataAfter(i, j)

\* C3: an armed payload of the expected length consumed while the timestamp
\* or the signal strength is missing returns nothing and leaves both pending
\* fields empty and the flag clear, so that no later packet carries a value
\* that was pending then.
C3_Claim == C3_IncompleteFrameClearsPending /\ C3_DroppedMetadataNeverUsed

\* C4, the reset: after an armed bracketed payload is rejected because its value count
\* differs from the expected length, pending timestamp and pending signal
\* strength are both empty.
C4_RejectedPayloadResetsParser ==
    (/\ Last >= 1
     /\ ConsumedAt(Last)
     /\ Len(ParseCsiArray(LineAt(Last))) # ExpectedLen)
    => /\ parser.current_timestamp = None
       /\ parser.current_rssi = None

\* C4, the consequence: no packet emitted later carries a timestamp or a
\* signal strength that was fed before the rejected payload.
C4_NoStaleMetadataAfterReject ==
    \A i \in 1..Last : \A j \in (i + 1)..Last :
        (/\ ConsumedAt(i)
         /\ Len(ParseCsiArray(LineAt(i))) # ExpectedLen
         /\ hist[j].emitted)
        => FreshMetadataAfter(i, j)

\* C4: a payload rejected for its value count leaves pending timestamp and
\* pending signal strength empty, so that no later packet carries a
\* timestamp or a signal strength fed before the rejected payload.
C4_Claim == C4_RejectedPayloadResetsParser /\ C4_NoStaleMetadataAfterReject

\* C5: an armed bracketed payload whose value count is not the expected
\* length returns no packet and leaves the armed flag clear, and a
\* well-formed sequence fed right after it emits exactly one packet, on its
\* fourth line, carrying exactly the values of that sequence.
C5_RejectedThenWellFormed ==
    \A i \in 1..Last :
        (ConsumedAt(i) /\ Len(ParseCsiArray(LineAt(i))) # ExpectedLen) =>
            /\ ~hist[i].emitted
            /\ ~PostAt(i).waiting_for_csi_line
            /\ \A ts \in Timestamps, rssi \in Rssis :
                  (Last = i + 4 /\ WellFormedAt(i + 1, ts, rssi)) =>
                      /\ \A j \in (i + 1)..(i + 3) : ~hist[j].emitted
                      /\ ret = Some(CsiPacket(ts, rssi, GoodPayload))

C5_Witness ==
    /\ Last = 6
    /\ LineAt(1) = MarkerLine
    /\ LineAt(2) = ArrayLine(ShortPayload)
    /\ WellFormedAt(3, 1000, -40)
    /\ IsSome(ret)

\* C6: a bracketed line fed while the armed flag is not set returns no
\* packet and leaves the parser unchanged, and the number of packets
\* emitted never exceeds the number of marker lines fed.
C6_UnarmedArrayIgnored ==
    /\ (Last >= 1
          /\ StartsWith(Trim(LineAt(Last)), <<"[">>)
          /\ ~hist[Last].pre.waiting_for_csi_line)
        => (ret = None /\ parser = hist[Last].pre)
    /\ Cardinality({i \in 1..Last : hist[i].emitted})
          <= Cardinality({i \in 1..Last : StartsWith(Trim(LineAt(i)), S_marker)})

C6_Witness ==
    /\ Last = 3
    /\ LineAt(1) = TimestampLine(1000)
    /\ LineAt(2) = RssiLine(-40)
    /\ LineAt(3) = ArrayLine(GoodPayload)
    /\ ~hist[Last].pre.waiting_for_csi_line

\* C7: right after a call that emits a packet the parser holds no pending
\* timestamp, no pending signal strength and is not armed, and a marker
\* line and a valid payload fed next, with no new timestamp and
\* signal-strength lines, emit no packet.
C7_EmitClearsParser ==
    /\ (Last >= 1 /\ IsSome(ret)) => parser = NewParser
    /\ \A i \in 1..Last :
          (/\ hist[i].emitted
           /\ Last = i + 2
           /\ LineAt(i + 1) = MarkerLine
           /\ LineAt(i + 2) = ArrayLine(GoodPayload))
          => (~hist[i + 1].emitted /\ ret = None)

C7_Witness ==
    /\ Last = 6
    /\ hist[4].emitted
    /\ LineAt(5) = MarkerLine
    /\ LineAt(6) = ArrayLine(GoodPayload)
    /\ ConsumedAt(6)

\* C8: every packet feed_line returns has exactly the expected 128 raw
\* values, an even number; no packet with an odd number of values is built.
C8_FrameLengthEven ==
    IsSome(ret) =>
        /\ Len(Unwrap(ret).csi_values) = ExpectedLen
        /\ Len(Unwrap(ret).csi_values) % 2 = 0

C8_Witness ==
    /\ IsSome(ret)
    /\ \E i \in 1..Last :
          ConsumedAt(i) /\ Len(ParseCsiArray(LineAt(i))) % 2 = 1


(***************************************************************************)
(* Claims about the recording worker, checked under SpecWorker.            *)
(***************************************************************************)
\* the last read of worker w returned malformed device input: a chunk of
\* MalformedChunkIds or bytes that are not UTF-8
LastReadMalformed(w) ==
    \/ w.last_read.kind = "data" /\ w.last_read.chunk \in MalformedChunkIds
    \/ w.last_read.kind = "badutf8"

\* C9: when the port, the commands and the disk work, no malformed device
\* input changes the result of the session: no read fails, the capture loop
\* is left only when the duration has elapsed, and the result the worker
\* reports is success.
C9_MalformedInputKeepsSession ==
    \A sid \in 1..Len(workers) :
        device = NoisyDevice =>
            /\ ~workers[sid].read_failed
            /\ workers[sid].pc \in {"flush", "returned", "exited"} => workers[sid].elapsed
            /\ IsSome(workers[sid].res) => workers[sid].res = Some("Ok")
            /\ workers[sid].pc = "exited" => done_ch[sid].q = << "Ok" >>

C9_Witness ==
    /\ device = NoisyDevice
    /\ workers[1].pc = "exited"
    /\ workers[1].reads = 2
    /\ LastReadMalformed(workers[1])
    /\ workers[1].parser.current_timestamp = Some(2500)
    /\ done_ch[1].q = << "Ok" >>

(***************************************************************************)
(* Claims about a session, checked under Spec.                             *)
(***************************************************************************)
\* C2: a read error of the worker that is neither a timeout nor a
\* would-block ends the session as failed: the result the worker reports is
\* an error, and once the UI has taken it the status line reports the
\* failure.
C2_ReadErrorFailsSession ==
    \A sid \in 1..Len(workers) :
        workers[sid].read_failed =>
            /\ IsSome(workers[sid].res) => workers[sid].res # Some("Ok")
            /\ (sid = Len(workers) /\ done_ch[sid].nrecv = 1)
                  => app.status = "Recording failed"

\* the session whose worker's read failed has been reported to the UI
C2_Witness ==
    /\ Len(workers) = 1
    /\ workers[1].read_failed
    /\ done_ch[1].nrecv = 1
    /\ app.step = "Finished"

\* C10, the worker's side: a completion channel carries at most one message,
\* and none before the worker has left the capture loop and returned.
C10_OneCompletionAfterReturn ==
    \A sid \in 1..Len(workers) :
        /\ done_ch[sid].nsent <= 1
        /\ Len(done_ch[sid].q) <= 1
        /\ workers[sid].pc # "exited" => done_ch[sid].nsent = 0
        /\ workers[sid].pc \notin {"exited", "panicked"} => done_ch[sid].tx
        /\ done_ch[sid].nrecv <= done_ch[sid].nsent

\* C10, polling: the completion receiver App holds is one that is alive and
\* has returned no message yet, so a channel is not polled again once its
\* message was taken.
C10_NoPollAfterReceipt ==
    IsSome(app.worker_done_rx) =>
        /\ done_ch[Unwrap(app.worker_done_rx)].rx
        /\ done_ch[Unwrap(app.worker_done_rx)].nrecv = 0

\* C10, the UI's side: the step in which the UI takes a completion message
\* leaves App in step Finished with no completion receiver, the receiver
\* dropped.
C10_ReceiptFinishes ==
    \A sid \in 1..Len(done_ch) :
        done_ch'[sid].nrecv > done_ch[sid].nrecv =>
            /\ app'.step = "Finished"
            /\ app'.worker_done_rx = None
            /\ ~done_ch'[sid].rx

\* C10: the worker sends at most one completion message, only after leaving
\* the capture loop, and on receipt the UI step becomes Finished and the
\* completion receiver is dropped.
C10_CompletionHandshake ==
    /\ []C10_OneCompletionAfterReturn
    /\ []C10_NoPollAfterReceipt
    /\ [][C10_ReceiptFinishes]_vars

C10_Witness ==
    /\ Len(workers) = 1
    /\ workers[1].elapsed
    /\ workers[1].frame_idx = 2
    /\ done_ch[1].nrecv = 1
    /\ ~done_ch[1].rx
    /\ app.step = "Finished"
    /\ app.worker_done_rx = None


\* the worker of session sid ended without sending, and App still holds the
\* completion receiver of that session
WorkerVanished(sid) ==
    /\ sid <= Len(workers)
    /\ workers[sid].pc = "panicked"
    /\ app.worker_done_rx = Some(sid)

\* this step is a check_worker poll that finds the channel disconnected
PollFindsDisconnected ==
    /\ uipc = "check_worker"
    /\ uipc' = "refresh_esp"
    /\ IsSome(app.worker_done_rx)
    /\ TryRecv(done_ch[Unwrap(app.worker_done_rx)]).kind = "Disconnected"

\* C11, the poll: a check_worker poll of a disconnected channel moves the
\* session to Finished with the 'disconnected' status and forgets the
\* receiver; it does not leave App as a poll of an empty channel does.
C11_PollObservesDisconnect ==
    PollFindsDisconnected =>
        /\ app'.step = "Finished"
        /\ app'.status = "Worker thread disconnected unexpectedly."
        /\ app'.worker_done_rx = None
        /\ app' # app

\* C11: if the worker thread ends without sending on the completion
\* channel, the next check_worker poll observes the disconnection and moves
\* the session to Finished with the 'disconnected' status, and the session
\* does not stay in Recording forever: App eventually stops waiting for it
\* (by that poll, unless a new session replaced it first).
C11_DisconnectIsTerminal ==
    /\ [][C11_PollObservesDisconnect]_vars
    /\ \A sid \in 1..MaxSessions :
          WorkerVanished(sid) ~> (app.worker_done_rx # Some(sid))

C11_Witness ==
    /\ Len(workers) = 1
    /\ workers[1].pc = "panicked"
    /\ app.worker_done_rx = None
    /\ app.step = "Finished"
    /\ app.status = "Worker thread disconnected unexpectedly."
    /\ ~done_ch[1].rx


(***************************************************************************)
(* Claims about the live series buffer, checked under SpecPlot.            *)
(***************************************************************************)
\* the points are the newest samples of the session, in order, none missing:
\* what is left after the oldest ones were removed
NewestSamples(points) ==
    LET n == Len(points)
    IN  n > 0 =>
            /\ n = Min(points[n][1], MaxPlotPoints)
            /\ \A i \in 1..n : points[i] = << points[n][1] - n + i, 0 >>

\* C12: in every reachable state plot_points holds at most 2000 points,
\* whatever live samples, file loads and session starts occurred, and when
\* samples arrive at a full buffer the oldest ones are the ones removed.
C12_BufferBounded ==
    /\ Len(app.plot_points) <= MaxPlotPoints
    /\ app.step = "Recording" => NewestSamples(app.plot_points)

\* the live buffer is full and a sample was removed from it
C12_Witness ==
    /\ app.step = "Recording"
    /\ Len(app.plot_points) = MaxPlotPoints
    /\ app.plot_points[1][1] = 2


(***************************************************************************)
(* C13: the table file of a session.                                       *)
(***************************************************************************)
\* the lines the table file of a worker must hold: nothing while the header
\* is not written, else the header followed by the row of each of the
\* first n accepted frames, in the order feed_line returned them
ExpectedTable(w, n) ==
    IF ~w.header_written THEN <<>>
    ELSE << CsvHeader(ExpectedLen) >> \o [k \in 1..n |-> CsvRow(w.accepted[k])]

\* C13: the table file of a session holds the header exactly once, as its
\* first line and only once a frame has been accepted, followed by exactly
\* one row per accepted frame in acceptance order (the frame whose write
\* failed, which ends the session with an error, has no row); a session with
\* no accepted frame writes no header.
C13_HeaderOnceThenRows ==
    LET w == workers[1]
        failed == w.res = Some("Err:write")
    IN  /\ ~IsSome(files[w.csv]) => w.accepted = <<>>
        /\ IsSome(files[w.csv]) =>
              /\ w.header_written => Len(w.accepted) >= 1
              /\ ~failed => (w.header_written <=> Len(w.accepted) >= 1)
              /\ w.lines_written = IF failed THEN Len(w.accepted) - 1 ELSE Len(w.accepted)
              /\ Unwrap(files[w.csv]) = ExpectedTable(w, w.lines_written)

\* two different frames were accepted and the file holds the header and
\* their two rows, in that order
C13_Witness ==
    LET w == workers[1]
    IN  /\ Len(w.accepted) = 2
        /\ w.accepted[1] # w.accepted[2]
        /\ IsSome(files[w.csv])
        /\ Len(Unwrap(files[w.csv])) = 3
        /\ w.pc = "exited"

(***************************************************************************)
(* C14: write_csv_line and the decoding of load_csv_amplitude_series.      *)
(***************************************************************************)
\* the row written for packet p decodes to p: column 0 is its timestamp,
\* column 1 its rssi, and for every subcarrier k of p the loop of
\* load_csv_amplitude_series finds I_k and Q_k in columns 2+2k and 3+2k
RowDecodesTo(line, p) ==
    LET parts == TrimmedParts(Trim(line))
    IN  /\ Len(parts) = 2 + Len(p.csi_values)
        /\ ParseU64(parts[1]) = Some(p.esp_timestamp)
        /\ ParseI32(parts[2]) = Some(p.rssi)
        /\ \A k \in 0..((Len(p.csi_values) \div 2) - 1) :
              /\ ParseI32(parts[2 + 2 * k + 1]) = Some(p.csi_values[2 * k + 1])
              /\ ParseI32(parts[3 + 2 * k + 1]) = Some(p.csi_values[2 * k + 2])
              /\ DecodeSeriesRow(line, k) =
                     Some([ts |-> p.esp_timestamp, i |-> p.csi_values[2 * k + 1],
                           q |-> p.csi_values[2 * k + 2]])

\* C14: for every frame written and every subcarrier k below the frame's
\* subcarrier count, the row write_csv_line wrote, split on commas and decoded
\* as load_csv_amplitude_series decodes it, yields the frame's timestamp in
\* column 0, its rssi in column 1 and exactly I_k and Q_k in columns 2+2k and
\* 3+2k; the rows of the file are the rows written.
C14_RowRoundTrip ==
    /\ \A h \in 1..Len(hist) :
          IsSome(hist[h].packet) => RowDecodesTo(hist[h].line, Unwrap(hist[h].packet))
    /\ \A h \in 1..Len(hist) : Unwrap(files["walk1"])[h + 1] = hist[h].line

\* a frame of 64 subcarriers with negative values was written after another
\* and the series of subcarrier 63 was loaded with both rows decoded
C14_Witness ==
    /\ Len(hist) >= 2
    /\ hist[2].packet = Some(CsiPacket(1000, -40, GoodPayload))
    /\ ret # None
    /\ ret.fn = "series"
    /\ ret.subcarrier = 63
    /\ Len(Unwrap(ret.out)) = 2

(***************************************************************************)
(* C15: rows with too few columns.                                         *)
(***************************************************************************)
\* a data row that is not blank and has fewer than `required` columns
IsShortRow(line, required) ==
    Len(Trim(line)) > 0 /\ Len(Split(line, ",")) < required

\* the lines of a table without its short data rows
WithoutShortRows(lines, required) ==
    << lines[1] >> \o SelectSeq(Tail(lines), LAMBDA l : ~IsShortRow(l, required))

\* the number of columns the last load required of a data row: the I and Q
\* columns of the subcarrier for the series, the columns of the header for
\* the heatmap
RequiredColumns ==
    IF ret.fn = "series" THEN 4 + 2 * ret.subcarrier
    ELSE Len(Split(ret.lines[1], ","))

\* the function the last load called, applied to other lines
LastLoadOf(lines) ==
    IF ret.fn = "series"
    THEN LoadCsvSeries(lines, ret.subcarrier, ret.overflow_checks).out
    ELSE LoadCsvHeatmap(lines)

\* C15: a data row with fewer columns than required is skipped and decoding
\* continues with the following rows: the load of a table, by
\* load_csv_amplitude_series and by load_csv_heatmap, succeeds and returns
\* what the load of the table without its short rows returns.
C15_ShortRowsSkipped ==
    (ret # None /\ Len(ret.lines) > 0 /\ ~ret.panicked) =>
        /\ IsSome(ret.out)
        /\ ret.out = LastLoadOf(WithoutShortRows(ret.lines, RequiredColumns))

\* load_csv_amplitude_series skipped a short row between two rows it decoded
C15_Witness ==
    /\ ret # None
    /\ ret.fn = "series"
    /\ Len(ret.lines) = 4
    /\ IsShortRow(ret.lines[3], RequiredColumns)
    /\ IsSome(ret.out)
    /\ Len(Unwrap(ret.out)) = 2

(***************************************************************************)
(* C16, C17: the grid of load_csv_heatmap.                                 *)
(***************************************************************************)
\* I^2 + Q^2 of every subcarrier of a data row, from its trimmed columns
\* as the series decoder parses them
AmpsOfParts(parts, nsub) ==
    [c \in 1..nsub |->
        UnwrapOr(ParseI32(parts[2 * c + 1]), 0) * UnwrapOr(ParseI32(parts[2 * c + 1]), 0)
            + UnwrapOr(ParseI32(parts[2 * c + 2]), 0) * UnwrapOr(ParseI32(parts[2 * c + 2]), 0)]

\* the squared amplitudes of the table the last load read, by data row and
\* subcarrier of the header
LoadedAmps ==
    LET kept == SelectSeq(ret.lines, LAMBDA l : Len(l) > 0)
        nsub == (Len(Split(kept[1], ",")) - 2) \div 2
    IN  [r \in 1..(Len(kept) - 1) |-> AmpsOfParts(TrimmedParts(kept[r + 1]), nsub)]

\* the last load was a load_csv_heatmap that decoded a table of at least one
\* data row
HeatmapDecoded ==
    /\ ret # None
    /\ ret.fn = "heatmap"
    /\ IsSome(ret.out)
    /\ Len(SelectSeq(ret.lines, LAMBDA l : Len(l) > 0)) >= 2

\* every cell has the same squared amplitude
Flat(amps) == \A r \in DOMAIN amps : \A c \in DOMAIN amps[r] : amps[r][c] = amps[1][1]

\* C16: for every decoded table with at least one row whose I/Q pairs all
\* have the same squared amplitude, load_csv_heatmap returns a grid with one
\* row per data row and one column per subcarrier in which every cell is 0.
C16_FlatTableGivesZeroGrid ==
    HeatmapDecoded =>
        \A amps \in {LoadedAmps} :
            Flat(amps) =>
                Unwrap(ret.out) = [r \in DOMAIN amps |-> [c \in DOMAIN amps[1] |-> 0]]

\* two rows whose four cells all have squared amplitude 100 gave a grid of
\* two rows of two zeros
C16_Witness ==
    /\ HeatmapDecoded
    /\ Unwrap(ret.out) = << << 0, 0 >>, << 0, 0 >> >>
    /\ LoadedAmps = << << 100, 100 >>, << 100, 100 >> >>

\* the values a grid of squared amplitudes holds
ValuesOf(amps) == {amps[r][c] : r \in DOMAIN amps, c \in DOMAIN amps[1]}

\* b is 100 * d / range rounded to the nearest integer
IsRounded100(b, d, range) ==
    /\ 2 * range * b - range <= 200 * d
    /\ 200 * d < 2 * range * b + range

\* C17: for every decoded table with max > min, load_csv_heatmap maps each
\* cell of squared amplitude a to round(100 * (a - min) / (max - min)) with
\* the minimum and maximum of the whole table: every byte is in 0..100, a
\* cell holding the global minimum gets 0, one holding the global maximum
\* gets 100, and a larger squared amplitude never gets a smaller byte, also
\* across rows.
C17_GlobalScaling ==
    HeatmapDecoded =>
        \A amps \in {LoadedAmps} :
            ~Flat(amps) =>
                \E lo \in ValuesOf(amps), hi \in ValuesOf(amps), out \in {Unwrap(ret.out)} :
                    /\ \A a \in ValuesOf(amps) : lo <= a /\ a <= hi
                    /\ DOMAIN out = DOMAIN amps
                    /\ \A r \in DOMAIN amps :
                          /\ DOMAIN out[r] = DOMAIN amps[r]
                          /\ \A c \in DOMAIN amps[r] :
                                /\ out[r][c] \in 0..100
                                /\ IsRounded100(out[r][c], amps[r][c] - lo, hi - lo)
                                /\ amps[r][c] = lo => out[r][c] = 0
                                /\ amps[r][c] = hi => out[r][c] = 100
                                /\ \A r2 \in DOMAIN amps : \A c2 \in DOMAIN amps[r2] :
                                      amps[r][c] <= amps[r2][c2] => out[r][c] <= out[r2][c2]

\* two rows with squared amplitudes 0 and 100 on each subcarrier gave the
\* bytes 0 and 100
C17_Witness ==
    /\ HeatmapDecoded
    /\ LoadedAmps = << << 0, 0 >>, << 100, 100 >> >>
    /\ Unwrap(ret.out) = << << 0, 0 >>, << 100, 100 >> >>

(***************************************************************************)
(* C18: the capture loop ends, and only as the code says.                  *)
(***************************************************************************)
\* a step of the worker out of, or within, the capture loop: the loop is left
\* for the flush only when the duration has elapsed or a read failed, the
\* function returns from inside the loop only with a write error, and a read
\* that timed out, would block, brought zero bytes or bytes that are no text
\* leaves the worker in the loop
LoopEndsAsCoded ==
    workers[1].pc = "capture" =>
        /\ workers'[1].pc \in {"capture", "flush", "returned", "panicked"}
        /\ workers'[1].pc = "flush" =>
              \/ workers'[1].elapsed
              \/ workers'[1].read_failed /\ workers'[1].last_read.kind = "error"
        /\ workers'[1].pc = "returned" => workers'[1].res = Some("Err:write")
        /\ workers'[1].pc = "panicked" => device.panics
        /\ (/\ workers'[1].reads = workers[1].reads + 1
            /\ workers'[1].last_read.kind \in {"TimedOut", "WouldBlock", "zero", "badutf8"})
              => workers'[1].pc = "capture"

\* C18: once in the capture loop, a worker whose reads keep returning leaves
\* the loop, flushes and sends its terminal result (a worker that does not
\* panic always sends one; with no I/O error it is the success sent after
\* the duration elapsed and the flush); nothing other than the duration
\* expiring or an I/O error ends the loop, and a timeout or would-block never
\* ends it.
C18_LoopTerminates ==
    /\ [][LoopEndsAsCoded]_vars
    /\ (workers[1].pc = "capture" /\ ~device.panics)
          ~> (workers[1].pc = "exited" /\ done_ch[1].q = << Unwrap(workers[1].res) >>)
    /\ [](workers[1].pc = "exited" /\ device = NoisyDevice
            => workers[1].elapsed /\ workers[1].res = Some("Ok"))

\* a worker whose two reads timed out and would block left the loop on the
\* duration, flushed and sent its success
C18_Witness ==
    /\ workers[1].pc = "exited"
    /\ workers[1].reads = MaxReads
    /\ workers[1].last_read.kind \in {"TimedOut", "WouldBlock"}
    /\ workers[1].elapsed
    /\ done_ch[1].q = << "Ok" >>

(***************************************************************************)
(* C19: a session started over an earlier one.                             *)
(***************************************************************************)
\* the sessions before the newest one
EarlierSessions == 1..(Len(workers) - 1)

\* the receivers of every earlier session are dropped, and the receivers
\* App holds are those of the newest session
OldReceiversDiscarded ==
    /\ \A sid \in EarlierSessions :
          /\ ~done_ch[sid].rx /\ done_ch[sid].q = <<>>
          /\ ~plot_ch[sid].rx /\ plot_ch[sid].q = <<>>
    /\ IsSome(app.worker_done_rx) => Unwrap(app.worker_done_rx) = Len(workers)
    /\ IsSome(app.plot_rx) => Unwrap(app.plot_rx) = Len(workers)
    /\ (Len(workers) >= 1 /\ app.step = "Recording") =>
          Len(app.plot_points) <= plot_ch[Len(workers)].nsent

\* a step in which nothing of an earlier session reaches App: no result is
\* received from an earlier completion channel, and a recording that leaves
\* the Recording step does so on the newest session's result or
\* disconnection, or because Ctrl+S found no port
NothingFromEarlierSessions ==
    /\ \A sid \in EarlierSessions : done_ch'[sid].nrecv = done_ch[sid].nrecv
    /\ (Len(workers) >= 1 /\ app.step = "Recording" /\ app'.step # "Recording") =>
          \/ done_ch'[Len(workers)].nrecv = done_ch[Len(workers)].nrecv + 1
          \/ ~done_ch[Len(workers)].tx /\ app'.worker_done_rx = None
          \/ app'.status = "No serial port detected"

\* C19: when a new session is started while an earlier worker is still
\* running, the earlier session's completion and live-sample receivers are
\* discarded, and no completion result and no live sample of the earlier
\* worker is delivered into the step, the status or the series buffer of the
\* new session.
C19_EarlierSessionDiscarded ==
    /\ []OldReceiversDiscarded
    /\ [][NothingFromEarlierSessions]_vars

\* the worker of the first session ended after the second session was
\* started: its frame's sample and its result were sent to dropped receivers
\* while App records the second session
C19_Witness ==
    /\ Len(workers) = 2
    /\ workers[1].pc = "exited"
    /\ workers[1].frame_idx >= 1
    /\ done_ch[1].nsent = 0
    /\ done_ch[1].nrecv = 0
    /\ app.step = "Recording"
    /\ app.worker_done_rx = Some(2)

(***************************************************************************)
(* C20: sends to receivers that are gone.                                  *)
(***************************************************************************)
\* a read handled while the receivers of both channels are gone: nothing is
\* queued or counted as sent, every frame accepted whose write succeeded has
\* its row appended to the table file, and the worker stays in the loop
\* unless a write failed
DetachedReadGoesOn ==
    (/\ workers[1].pc = "capture"
     /\ workers'[1].reads = workers[1].reads + 1
     /\ ~plot_ch[1].rx
     /\ ~heat_ch[1].rx) =>
        /\ plot_ch'[1] = plot_ch[1] \/ plot_ch'[1] = DropTx(plot_ch[1])
        /\ heat_ch'[1] = heat_ch[1] \/ heat_ch'[1] = DropTx(heat_ch[1])
        /\ Unwrap(files'["walk1"]) =
               ExpectedTable(workers'[1], workers'[1].lines_written)
        /\ workers'[1].res # Some("Err:write") =>
              /\ workers'[1].pc \in {"capture", "flush"}
              /\ workers'[1].lines_written = Len(workers'[1].accepted)
        /\ workers'[1].res \in {None, Some("Err:write")}

\* C20: a send by the worker on the live-series or heatmap channel never
\* aborts capture: with the receivers dropped the samples are discarded, the
\* row of every frame is still written to the table file, the loop goes on,
\* and with no I/O failure the worker ends after the duration with success.
C20_SendsNeverAbort ==
    /\ [][DetachedReadGoesOn]_vars
    /\ [](workers[1].pc = "exited" /\ device = NoisyDevice
            => workers[1].elapsed /\ done_ch[1].q = << "Ok" >>)

\* with both receivers gone the worker handled its hundredth frame, the one
\* a heatmap is sent after, wrote its row and finished with success
C20_Witness ==
    /\ ~plot_ch[1].rx
    /\ ~heat_ch[1].rx
    /\ workers[1].packet_counter = HeatmapUpdateInterval
    /\ heat_ch[1].nsent = 0
    /\ plot_ch[1].nsent = 0
    /\ Len(Unwrap(files["walk1"])) = HeatmapUpdateInterval + 1
    /\ workers[1].pc = "exited"
    /\ done_ch[1].q = << "Ok" >>

(***************************************************************************)
(* C21: a UI tick never waits for the worker.  Whatever the workers are    *)
(* doing, the poll_plot_data step and the check_worker step of the tick    *)
(* can be taken as soon as the loop reaches them, and a check_worker step  *)
(* takes at most one message from the completion channels; when nothing is *)
(* queued and the worker still holds its sender, the step changes nothing  *)
(* but the position of the loop.                                           *)
(***************************************************************************)
\* the channels from which a step takes a message, and whether it takes at
\* most one message from each
TakenFrom(before, after) ==
    {sid \in 1..Len(before) : after[sid].nrecv # before[sid].nrecv}

AtMostOneEach(before, after) ==
    \A sid \in 1..Len(before) : after[sid].nrecv <= before[sid].nrecv + 1

C21_TickNeverWaits ==
    /\ [](uipc = "poll_plot_data" => ENABLED UiPollPlotData)
    /\ [](uipc = "check_worker" => ENABLED UiCheckWorker)
    /\ [][UiCheckWorker =>
            /\ uipc' = "refresh_esp"
            /\ Cardinality(TakenFrom(done_ch, done_ch')) <= 1
            /\ AtMostOneEach(done_ch, done_ch')
            /\ (\A sid \in 1..Len(workers) :
                    /\ app.worker_done_rx = Some(sid)
                    /\ done_ch[sid].q = <<>>
                    /\ done_ch[sid].tx
                    => app' = app /\ done_ch' = done_ch)]_vars

\* a tick has passed check_worker while the worker it watches is capturing
\* and has sent nothing
C21_Witness ==
    /\ uipc = "refresh_esp"
    /\ \E sid \in 1..Len(workers) :
          /\ app.worker_done_rx = Some(sid)
          /\ workers[sid].pc = "capture"
          /\ workers[sid].reads > 0
          /\ done_ch[sid].q = <<>>

(***************************************************************************)
(* C30: at any time at most one worker is between opening the serial       *)
(* device and sending its result on its completion channel (the read loop, *)
(* the flush after it, and the return of record_csi_to_file before         *)
(* `tx.send(res)`).                                                        *)
(***************************************************************************)
DeviceOpened(w) ==
    \/ w.pc \in {"capture", "flush"}
    \/ w.pc = "returned" /\ w.res \notin {Some("Err:rerun-save"), Some("Err:open")}

C30_AtMostOneWorker ==
    Cardinality({sid \in 1..Len(workers) : DeviceOpened(workers[sid])}) <= 1

\* Ctrl+S while the worker of the session before is still in its read loop:
\* a second worker is spawned for the same port and the same file
C30_Witness ==
    /\ Len(workers) = 2
    /\ workers[1].pc = "capture"
    /\ workers[2].pc = "configure"
    /\ workers[1].csv = workers[2].csv
    /\ app.worker_done_rx = Some(2)

(***************************************************************************)
(* C23: the UI loop holds the receiver of the heatmap channel of the       *)
(* session it watches, and the worker of that session holds the sender, so *)
(* that a snapshot the worker sends can be taken by a later tick.          *)
(***************************************************************************)
C23_SnapshotsHaveAConsumer ==
    \A sid \in 1..Len(workers) :
        /\ app.worker_done_rx = Some(sid)
        /\ workers[sid].pc = "capture"
        => workers[sid].heatmap_tx /\ heat_ch[sid].rx

\* the watched worker has accepted a frame and no heatmap channel joins it
\* to the UI loop
C23_Witness ==
    \E sid \in 1..Len(workers) :
        /\ app.worker_done_rx = Some(sid)
        /\ workers[sid].pc = "capture"
        /\ workers[sid].frame_idx > 0
        /\ ~workers[sid].heatmap_tx
        /\ ~heat_ch[sid].rx

(***************************************************************************)
(* C24: in every reachable state each row of the displayed heatmap grid    *)
(* has one column per subcarrier and every cell of it is within 0..100.    *)
(***************************************************************************)
C24_GridWellFormed ==
    \A r \in DOMAIN app.heatmap_data :
        /\ Len(app.heatmap_data[r]) = NumSubcarriers
        /\ \A k \in DOMAIN app.heatmap_data[r] : app.heatmap_data[r][k] \in 0..100

\* the displayed grid is that of load_heatmap_data on the table of a
\* recording: a cell of it is above 100
C24_Witness ==
    \E r \in DOMAIN app.heatmap_data :
        \E k \in DOMAIN app.heatmap_data[r] : app.heatmap_data[r][k] > 100

(***************************************************************************)
(* C29: when the header has an odd number of columns after the first two,  *)
(* load_csv_heatmap drops only the stray last column: a table it decodes   *)
(* gives a grid with one row per data row, each of                         *)
(* floor((total_cols - 2) / 2) columns.                                    *)
(***************************************************************************)
HeaderColumns == Len(Split(ret.lines[1], ","))

DataRows == SelectSeq(Tail(ret.lines), LAMBDA l : Len(l) > 0)

C29_StrayColumnDropped ==
    (HeatmapDecoded /\ (HeaderColumns - 2) % 2 = 1) =>
        \E grid \in {Unwrap(ret.out)} :
            /\ Len(grid) = Len(DataRows)
            /\ \A r \in DOMAIN grid : Len(grid[r]) = (HeaderColumns - 2) \div 2

\* a table of seven columns and two rows was decoded into rows of one cell
C29_Witness ==
    /\ HeatmapDecoded
    /\ HeaderColumns = 7
    /\ Len(DataRows) = 2
    /\ Len(Unwrap(ret.out)) = 2
    /\ Len(Unwrap(ret.out)[1]) = 1

(***************************************************************************)
(* C26: the worker's heatmap ring never holds more than 50 rows, it holds  *)
(* the rows of the latest frames whose row was written, oldest first,      *)
(* every row has one cell per subcarrier and every cell is within 0..100;  *)
(* and while the receiver of the heatmap channel is alive, one snapshot    *)
(* has been sent per multiple of 100 that the frame count has reached, the *)
(* j-th snapshot being the ring as it was with frame 100 * j as its last   *)
(* row.                                                                    *)
(***************************************************************************)
\* ring is the ring after the first n accepted frames of w: the rows of the
\* latest min(n, 50) of them, oldest first
IsRingAfter(ring, w, n) ==
    LET len == Min(n, HeatmapRingCapacity)
    IN  /\ Len(ring) = len
        /\ \A p \in {w.accepted[n - len + k] : k \in 1..len} :
              \A row \in {HeatmapRow(p)} :
                  \A k \in 1..len : w.accepted[n - len + k] = p => ring[k] = row

C26_RingBoundedAndSent ==
    \A w \in {workers[1]}, ch \in {heat_ch[1]} :
        /\ Len(w.csi_buffer) <= HeatmapRingCapacity
        /\ IsRingAfter(w.csi_buffer, w, w.packet_counter)
        /\ \A r \in DOMAIN w.csi_buffer :
              /\ Len(w.csi_buffer[r]) = NumSubcarriers
              /\ \A k \in DOMAIN w.csi_buffer[r] : w.csi_buffer[r][k] \in 0..100
        /\ ch.rx =>
              /\ ch.nsent = w.packet_counter \div HeatmapUpdateInterval
              /\ Len(ch.q) = ch.nsent
              /\ \A j \in DOMAIN ch.q : IsRingAfter(ch.q[j], w, HeatmapUpdateInterval * j)

\* frame 101 was one of strong signal: the ring is full, its oldest row was
\* evicted, its newest row holds the capped cell 100, and the one snapshot
\* was sent with frame 100
C26_Witness ==
    /\ workers[1].packet_counter = HeatmapUpdateInterval + 1
    /\ Len(workers[1].csi_buffer) = HeatmapRingCapacity
    /\ workers[1].csi_buffer[HeatmapRingCapacity][1] = 100
    /\ workers[1].csi_buffer[HeatmapRingCapacity][2] = 52
    /\ heat_ch[1].nsent = 1

(***************************************************************************)
(* C25: the writes to the port before the capture loop are, in order, the  *)
(* mode-set command in sniffer mode, or mode-set, SSID, password and the   *)
(* feature-disable command in station mode, then the start command with    *)
(* the requested duration, each followed by "\r\n".  What a worker has      *)
(* written is always a prefix of that list, all of it is written before    *)
(* the first read, and a worker that left the configuration without having *)
(* written all of it has failed, has read nothing, and has not written the *)
(* start command unless it was the start command's own terminator that     *)
(* failed.                                                                 *)
(***************************************************************************)
ExpectedWrites(w) ==
    LET start == "start --duration=" \o ToString(w.duration_secs)
    IN  IF w.mode = "Sniffer"
        THEN << "set-wifi --mode=sniffer", "\r\n", start, "\r\n" >>
        ELSE << "set-wifi --mode station", "\r\n",
                "set-wifi --sta-ssid=my_net", "\r\n",
                "set-wifi --sta-password=p_w", "\r\n",
                "set-csi --disable-htltf --disable-stbc-htltf", "\r\n",
                start, "\r\n" >>

C25_CommandsInOrder ==
    \A w \in {workers[1]}, expected \in {ExpectedWrites(workers[1])} :
        /\ Len(w.sent) <= Len(expected)
        /\ w.sent = SubSeq(expected, 1, Len(w.sent))
        /\ w.pc = "configure" => w.sent = <<>> /\ w.reads = 0
        /\ (w.reads > 0 \/ w.pc \in {"capture", "flush"}) => w.sent = expected
        /\ (w.pc \in {"returned", "exited"} /\ w.sent # expected) =>
              /\ w.res \in {Some("Err:rerun-save"), Some("Err:open"), Some("Err:dtr"),
                             Some("Err:clear"), Some("Err:command")}
              /\ w.reads = 0
              /\ ~IsSome(files[w.csv])
              /\ Len(w.sent) < Len(expected) - 1 =>
                    \A k \in DOMAIN w.sent : w.sent[k] # expected[Len(expected) - 1]

\* a station-mode worker has read from the port after writing its five
\* commands
C25_Witness ==
    /\ workers[1].mode = "Station"
    /\ workers[1].reads > 0
    /\ Len(workers[1].sent) = 10
    /\ workers[1].sent[9] = "start --duration=3"

(***************************************************************************)
(* C27: whatever the parser held before, once a timestamp line, a signal   *)
(* strength line and a marker line have been fed, in any order and with    *)
(* blank, prompt or unrecognized lines anywhere among them, a bracketed    *)
(* payload of the expected length fed next returns the frame of that       *)
(* timestamp, signal strength and payload, and none of the lines before it *)
(* returned a frame.                                                       *)
(***************************************************************************)
\* the indices in NoisyLines of the three lines that precede a payload and
\* of the lines that are blank, a prompt or unrecognized
FrameIds == {1, 2, 3}
NothingIds == {5, 6, 7}

\* calls i..j-1 fed one timestamp line, one signal strength line and one
\* marker line, in some order, and otherwise only lines that carry nothing
PrecededByAnyOrder(i, j) ==
    /\ \A id \in FrameIds : Cardinality({c \in i..(j - 1) : hist[c].line = id}) = 1
    /\ \A c \in i..(j - 1) : hist[c].line \in FrameIds \cup NothingIds

C27_OrderInsensitive ==
    \A j \in 1..Len(hist) :
        (j = Len(hist) /\ hist[j].line = 4) =>
            \A i \in 1..j :
                PrecededByAnyOrder(i, j) =>
                    /\ ret = Some(CsiPacket(1000, -40, GoodPayload))
                    /\ \A c \in i..(j - 1) : ~hist[c].emitted

\* the marker came first, then the signal strength, a prompt and the
\* timestamp, and the payload returned the frame
C27_Witness ==
    /\ Len(hist) = 5
    /\ << hist[1].line, hist[2].line, hist[3].line, hist[4].line, hist[5].line >>
          = << 3, 2, 6, 1, 4 >>
    /\ ret = Some(CsiPacket(1000, -40, GoodPayload))

(***************************************************************************)
(* C28: a blank line, a line beginning with the prompt marker and an       *)
(* unrecognized line return no frame and leave the pending timestamp, the  *)
(* pending signal strength and the armed flag as they were; a metadata     *)
(* line whose value does not parse returns no frame and leaves the pending *)
(* value it names as it was.                                               *)
(***************************************************************************)
\* the parser after call i of SpecNoisy
NoisyPostAt(i) == IF i = Len(hist) THEN parser ELSE hist[i + 1].pre

\* call i fed an unrecognized line: other text, or a bracketed line while
\* the parser was not armed
UnrecognizedAt(i) ==
    \/ hist[i].line = 7
    \/ hist[i].line \in {4, 10} /\ ~hist[i].pre.waiting_for_csi_line

C28_NoiseChangesNothing ==
    \A i \in 1..Len(hist) :
        /\ (hist[i].line \in {5, 6} \/ UnrecognizedAt(i)) =>
              ~hist[i].emitted /\ NoisyPostAt(i) = hist[i].pre
        /\ hist[i].line = 8 =>
              /\ ~hist[i].emitted
              /\ NoisyPostAt(i).current_rssi = hist[i].pre.current_rssi
        /\ hist[i].line = 9 =>
              /\ ~hist[i].emitted
              /\ NoisyPostAt(i).current_timestamp = hist[i].pre.current_timestamp

\* an armed parser holding both pending values was fed the signal strength
\* line that does not parse and then the line of other text, and holds what
\* it held
C28_Witness ==
    /\ Len(hist) = 5
    /\ << hist[4].line, hist[5].line >> = << 8, 7 >>
    /\ hist[4].pre = [current_timestamp |-> Some(1000), current_rssi |-> Some(-40),
                      waiting_for_csi_line |-> TRUE]
    /\ parser = hist[4].pre

(***************************************************************************)
(* C22: while the worker is in its capture loop, the lines it has fed to   *)
(* the parser are the complete newline-terminated lines of all the bytes   *)
(* its reads have brought, each once and in arrival order (trimmed, the    *)
(* blank ones left out), a line that came in two reads included.           *)
(***************************************************************************)
RECURSIVE ReceivedBytes(_)
\* the bytes of the reads of log, in order
ReceivedBytes(log) ==
    IF Len(log) = 0 THEN <<>> ELSE BytesOf(Head(log)) \o ReceivedBytes(Tail(log))

\* the complete lines of bytes, trimmed, without the blank ones
CompleteLines(bytes) ==
    LET pieces == Split(bytes, "\n")
        trimmed == [i \in 1..(Len(pieces) - 1) |-> Trim(pieces[i])]
    IN  SelectSeq(trimmed, LAMBDA l : Len(l) > 0)

C22_EveryLineFed ==
    \A w \in {workers[1]} :
        w.pc = "capture" => w.fed = CompleteLines(ReceivedBytes(w.read_log))

\* a read brought a byte that is no text before a complete line, the next
\* read brought a frame: the line of the first read was never fed
C22_Witness ==
    /\ workers[1].pc = "capture"
    /\ workers[1].read_log = << ReadBadUtf8, Data(1) >>
    /\ Len(workers[1].fed) = 4
    /\ Len(CompleteLines(ReceivedBytes(workers[1].read_log))) = 5

(***************************************************************************)
(* C33: however a session ended (a success result, a failure result, or    *)
(* the worker gone without a result), once check_worker has set the step   *)
(* to Finished the auto-switch state is reset: full_screen_plot and        *)
(* auto_switched are false and recording_start is empty.                   *)
(***************************************************************************)
C33_EndResetsAutoSwitch ==
    (Len(workers) > 0 /\ app.step = "Finished" /\ ~IsSome(app.worker_done_rx)) =>
        /\ ~app.full_screen_plot
        /\ ~app.auto_switched
        /\ ~app.recording_start

\* the worker panicked after the UI had switched to the full-screen plot;
\* check_worker found the channel disconnected and left the switch on
C33_Witness ==
    /\ Len(workers) = 1
    /\ workers[1].pc = "panicked"
    /\ app.step = "Finished"
    /\ app.status = "Worker thread disconnected unexpectedly."
    /\ app.full_screen_plot
    /\ app.auto_switched
    /\ app.recording_start

(***************************************************************************)
(* C31: once a session has ended with a success result and the recorded    *)
(* file has been loaded, the series buffer holds exactly the points        *)
(* decoded from that file: no live sample the worker sent before it        *)
(* finished is appended by a later poll_plot_data.                         *)
(***************************************************************************)
LoadedAfterSuccess ==
    /\ Len(workers) > 0
    /\ workers[Len(workers)].pc = "exited"
    /\ workers[Len(workers)].res = Some("Ok")
    /\ app.step = "Finished"
    /\ app.status = "Loaded samples"
    /\ ~IsSome(app.worker_done_rx)

C31_OnlyFilePoints ==
    LoadedAfterSuccess =>
        app.plot_points =
            Unwrap(LoadCsvAmplitudeSeries(files[workers[Len(workers)].csv],
                                          app.subcarrier))

\* the worker sent a sample after the tick's poll_plot_data and then its
\* success result; check_worker loaded the file and left plot_rx in place,
\* and the next poll_plot_data appended the queued sample to the file's points
C31_Witness ==
    /\ LoadedAfterSuccess
    /\ ~IsSome(app.plot_rx)
    /\ \E series \in {Unwrap(LoadCsvAmplitudeSeries(
                           files[workers[Len(workers)].csv], app.subcarrier))} :
          /\ Len(series) > 0
          /\ Len(app.plot_points) > Len(series)
          /\ SubSeq(app.plot_points, 1, Len(series)) = series

(***************************************************************************)
(* C36: every frame feed_line returns has exactly 64 I/Q pairs, so the     *)
(* worker's loop over the subcarrier indices 0..63 never indexes past the  *)
(* end of the frame's amplitudes, whatever lines were fed before.          *)
(***************************************************************************)
C36_LoopStaysInRange ==
    IsSome(ret) =>
        \A amplitudes \in {GetAmplitudesSq(Unwrap(ret))} :
            /\ Len(amplitudes) = NumSubcarriers
            /\ \A subcarrier_idx \in 0..(NumSubcarriers - 1) :
                   subcarrier_idx + 1 \in DOMAIN amplitudes

\* a bracketed line of 127 values was fed while the parser was armed and
\* gave no frame; a later well-formed group of lines gave one
C36_Witness ==
    /\ IsSome(ret)
    /\ \E j \in 1..Len(hist) :
          /\ hist[j].line = 6
          /\ hist[j].pre.waiting_for_csi_line
          /\ ~hist[j].emitted

(***************************************************************************)
(* C35: when the rerun save, the open of the port, the control-line        *)
(* assert, the buffer clear or a write of a configuration or start command *)
(* fails, the worker returns that error and the table files are as they    *)
(* were: the output file is neither created nor emptied.                   *)
(***************************************************************************)
ConfigureErrors ==
    {Some("Err:rerun-save"), Some("Err:open"), Some("Err:dtr"), Some("Err:clear"),
     Some("Err:command")}

C35_FailedSetupLeavesFile ==
    [][\A sid \in 1..Len(workers) :
          (workers[sid].pc = "configure" /\ workers'[sid].pc = "returned") =>
              /\ (workers'[sid].res \in ConfigureErrors => files' = files)
              /\ (workers'[sid].res \notin ConfigureErrors =>
                      workers'[sid].res = Some("Err:create"))]_vars

\* a recording of the same name existed, a write of the start command
\* failed, and the recording still holds its header and its row
C35_Witness ==
    /\ Len(workers) = 1
    /\ workers[1].pc = "returned"
    /\ workers[1].res = Some("Err:command")
    /\ workers[1].sent # <<>>
    /\ IsSome(files[workers[1].csv])
    /\ Len(Unwrap(files[workers[1].csv])) = 2

(***************************************************************************)
(* C34: load_csv_amplitude_series gives the first row it decodes the       *)
(* elapsed time 0 and every later row the time ts - ts_first, computed     *)
(* without unsigned underflow: the call returns, and every elapsed time is *)
(* that difference and is not negative, also when a later row carries a    *)
(* smaller timestamp than the first.                                       *)
(***************************************************************************)
C34_ElapsedWithoutUnderflow ==
    (ret # None /\ ret.fn = "series" /\ Len(ret.lines) > 0) =>
        /\ ~ret.panicked
        /\ IsSome(ret.out)
        /\ \A rows \in {DecodedSeriesRows(ret.lines, ret.subcarrier)} :
              /\ Len(Unwrap(ret.out)) = Len(rows)
              /\ \A k \in 1..Len(rows) :
                    /\ Unwrap(ret.out)[k][1] >= 0
                    /\ Unwrap(ret.out)[k][1] = rows[k].ts - rows[1].ts

\* in a build without overflow checks the row of timestamp 1000 that
\* follows the row of timestamp 2500 is placed near the top of the range
C34_Witness ==
    /\ ret # None
    /\ ret.fn = "series"
    /\ ~ret.overflow_checks
    /\ IsSome(ret.out)
    /\ Len(Unwrap(ret.out)) = 2
    /\ Unwrap(ret.out)[1][1] = 0
    /\ Unwrap(ret.out)[2][1] = U64ModelMax + 1 - 1500

\* in a build with overflow checks the same table makes the call panic
C34_Panics ==
    /\ ret # None
    /\ ret.fn = "series"
    /\ ret.overflow_checks
    /\ ret.panicked
    /\ Len(DecodedSeriesRows(ret.lines, ret.subcarrier)) = 2

(***************************************************************************)
(* C37: the grid load_heatmap_data builds is rectangular for every file it *)
(* can read: every row has as many cells as row 0, so Heatmap::render,     *)
(* which takes the column count from row 0, never reads past the end of a  *)
(* row, whatever the area it draws in.                                     *)
(***************************************************************************)
\* an area smaller than the grids of the model and a terminal-sized one
Areas == {[width |-> 3, height |-> 2], [width |-> 80, height |-> 24]}

C37_GridRectangular ==
    (ret # None /\ ret.fn = "grid" /\ IsSome(ret.out)) =>
        \A grid \in {Unwrap(ret.out)} :
            /\ \A y \in 1..Len(grid) : Len(grid[y]) = Len(grid[1])
            /\ \A area \in Areas :
                  \A r \in RenderReads(grid, area) : r[2] + 1 <= Len(grid[r[1] + 1])

\* a table with a header of seven columns and a row of five: the grid has a
\* row 0 of seven cells and a row 1 of five, and the render of a full-size
\* area reads values[1][5]
C37_Witness ==
    /\ ret # None
    /\ ret.fn = "grid"
    /\ IsSome(ret.out)
    /\ Len(Unwrap(ret.out)) = 2
    /\ Len(Unwrap(ret.out)[1]) = 7
    /\ Len(Unwrap(ret.out)[2]) = 5
    /\ << 1, 5 >> \in RenderReads(Unwrap(ret.out), [width |-> 80, height |-> 24])

(***************************************************************************)
(* C32: as long as the completion result of a worker is pending            *)
(* (worker_done_rx is present) the step is Recording: no key and no file   *)
(* load moves it to another step.                                          *)
(***************************************************************************)
C32_PendingMeansRecording ==
    IsSome(app.worker_done_rx) => app.step = "Recording"

\* Enter was pressed with the focus on the filename field while the worker
\* had not reported: the step left Recording with the result still pending
C32_Witness ==
    /\ IsSome(app.worker_done_rx)
    /\ Len(workers) = 1
    /\ workers[1].pc = "configure"
    /\ app.nav_selected = 0
    /\ app.nav_item_selected = 5
    /\ app.step \in {"ChooseAction", "Finished"}
    /\ app.recording_start

(***************************************************************************)
(* C38: a worker is spawned only when a port was detected, the duration    *)
(* parses as an integer of at least 1 and the filename is not empty, on    *)
(* the Ctrl+S path and on the Enter path alike; a call of start_recording  *)
(* without a detected port spawns no worker and sets the step Finished.    *)
(***************************************************************************)
C38_SpawnOnlyWhenValid ==
    [][/\ Len(workers') > Len(workers) =>
            /\ IsSome(app.detected_port)
            /\ IsSome(ParseU64(app.duration_input))
            /\ Unwrap(ParseU64(app.duration_input)) >= 1
            /\ workers'[Len(workers')].duration_secs = Unwrap(ParseU64(app.duration_input))
            /\ ~IsBlankName(app.filename)
            /\ workers'[Len(workers')].csv = app.filename
       /\ (~IsSome(app.detected_port) /\ app'.status = "No serial port detected") =>
            /\ Len(workers') = Len(workers)
            /\ app'.step = "Finished"]_vars

\* Enter in the duration field started a session whose filename is empty:
\* the worker is to write the table ".csv"
C38_Witness ==
    /\ Len(workers) = 1
    /\ workers[1].csv = ""
    /\ workers[1].duration_secs = 3
    /\ app.filename = ""
    /\ app.step = "Recording"
    /\ app.worker_done_rx = Some(1)

=============================================================================
